---- MODULE Spec2Model ----
(***************************************************************************)
(* Model of the fastlane-autocomplete knowledge engine: the Knowledge      *)
(* Cache (FastlaneDataManager), the Fallback Resolution Chain              *)
(* (FastlaneCompletionProvider.loadAllActions), Requiredness Inference,    *)
(* the Template Synthesizers and the cache initializer's row parser.       *)
(*                                                                         *)
(* Time is in milliseconds, as Date.getTime() gives it.  A JavaScript      *)
(* value that is undefined is the string Undefined; an empty string is "". *)
(***************************************************************************)
EXTENDS Integers, Sequences, FiniteSets, TLC

VARIABLES
    workspace,       \* vscode.workspace.workspaceFolders is set
    cacheFile,       \* .vscode/fastlane-cache/fastlane-data.json on disk
    now,             \* new Date().getTime()
    fastfile,        \* fastlane/Fastfile on disk
    pc,              \* position of the provider's loadAllActions
    cachedData,      \* loadAllActions: const cachedData
    cacheStatus,     \* loadAllActions: const cacheStatus
    local,           \* loadAllActions: const allActions (the set being assembled)
    fastlaneActions, \* loadAllActions: const fastlaneActions
    queue,           \* loadFastlaneActionsFromCLI: basicActions still to enhance
    enhanced,        \* loadFastlaneActionsFromCLI: enhancedActions
    actionInfoCache, \* this.actionInfoCache
    allActions,      \* this.allActions (the published completion set)
    spawned,         \* every subprocess command line exec() was given, in order
    inflight,        \* subprocesses spawned by the load and not yet settled
    notifications,   \* messages shown through vscode.window
    loadState,       \* the promise loadAllActions returned
    provided,        \* what the last provideCompletionItems returned
    probe,           \* last application of a pure function: its input and output
    commandRuns,             \* the initData / refreshData command handler being run
    initializer,     \* the process running scripts/init-fastlane-data.js
    fetcher          \* a FastlaneDocsFetcher and its getCommonActions call

vars == <<workspace, cacheFile, now, fastfile, pc, cachedData, cacheStatus,
          local, fastlaneActions, queue, enhanced, actionInfoCache, allActions,
          spawned, inflight, notifications, loadState, provided, probe,
          commandRuns, initializer, fetcher>>

-----------------------------------------------------------------------------
(* Bounds of the model *)

MaxCachedActions == 2   \* actions in a cached envelope
MaxListed        == 2   \* rows of one 'fastlane actions' table
MaxParams        == 8   \* parameters of one action handed to a synthesizer

-----------------------------------------------------------------------------
(* JavaScript values *)

Undefined == "<undefined>"

Truthy(s) == s # "" /\ s # Undefined

\* a || b on strings
OrElse(a, b) == IF Truthy(a) THEN a ELSE b

MsPerHour == 1000 * 60 * 60

Range(s) == {s[i] : i \in DOMAIN s}

\* Array.prototype.slice(0, n)
Slice0(s, n) == SubSeq(s, 1, IF Len(s) < n THEN Len(s) ELSE n)

RECURSIVE JoinWith(_, _)
\* Array.prototype.join(sep)
JoinWith(ss, sep) ==
    IF ss = <<>> THEN ""
    ELSE IF Len(ss) = 1 THEN ss[1]
    ELSE ss[1] \o sep \o JoinWith(Tail(ss), sep)

\* String.prototype.substring(0, n)
Substring0(s, n) == SubSeq(s, 1, IF Len(s) < n THEN Len(s) ELSE n)

UpperChars == <<"A","B","C","D","E","F","G","H","I","J","K","L","M",
                "N","O","P","Q","R","S","T","U","V","W","X","Y","Z">>
LowerChars == <<"a","b","c","d","e","f","g","h","i","j","k","l","m",
                "n","o","p","q","r","s","t","u","v","w","x","y","z">>
DigitChars == {"0","1","2","3","4","5","6","7","8","9"}

LowerChar(c) ==
    IF \E i \in 1..26 : UpperChars[i] = c
    THEN LowerChars[CHOOSE i \in 1..26 : UpperChars[i] = c]
    ELSE c

RECURSIVE toLowerCase(_)
\* String.prototype.toLowerCase
toLowerCase(s) ==
    IF s = "" THEN ""
    ELSE LowerChar(SubSeq(s, 1, 1)) \o toLowerCase(SubSeq(s, 2, Len(s)))

RECURSIVE FirstWord(_)
\* description.split(" ")[0]
FirstWord(s) ==
    IF s = "" \/ SubSeq(s, 1, 1) = " " THEN ""
    ELSE SubSeq(s, 1, 1) \o FirstWord(SubSeq(s, 2, Len(s)))

IsLetter(c) == c \in Range(UpperChars) \cup Range(LowerChars)

RECURSIVE AllWordChars(_)
\* every character is in [a-zA-Z0-9_]
AllWordChars(s) ==
    \/ s = ""
    \/ /\ LET c == SubSeq(s, 1, 1) IN IsLetter(c) \/ c \in DigitChars \/ c = "_"
       /\ AllWordChars(SubSeq(s, 2, Len(s)))

\* /^[a-zA-Z_][a-zA-Z0-9_]*$/.test(key)
IsParamKey(s) ==
    /\ s # "" /\ s # Undefined
    /\ LET c == SubSeq(s, 1, 1) IN IsLetter(c) \/ c = "_"
    /\ AllWordChars(s)

\* /^[a-zA-Z][a-zA-Z0-9_]*$/.test(actionName)
IsActionName(s) ==
    /\ s # "" /\ s # Undefined
    /\ IsLetter(SubSeq(s, 1, 1))
    /\ AllWordChars(s)

-----------------------------------------------------------------------------
(* Knowledge Cache: FastlaneDataManager *)

ValidHours == 24
AdvisoryHours == 12

\* The file as it is on disk.  kind "corrupt": JSON.parse throws, or yields
\* null so that reading data.timestamp throws.  kind "json": a JSON object;
\* hasActions / hasLanes say whether it holds an actions / a lanes array,
\* tsValid whether new Date(data.timestamp) is a valid date.
NoFile ==
    [kind |-> "absent", hasActions |-> FALSE, hasLanes |-> FALSE,
     tsValid |-> FALSE, timestamp |-> 0, actions |-> <<>>, lanes |-> <<>>]

CorruptFile == [NoFile EXCEPT !.kind = "corrupt"]

\* what getCachedData returns for null
NullData == [NoFile EXCEPT !.kind = "null"]

\* fs.existsSync(this.cacheFile), false too when this.cacheFile is ""
cacheFileExists(ws, file) == ws /\ file.kind # "absent"

\* (now.getTime() - cacheTime.getTime()) / (1000 * 60 * 60), kept in
\* milliseconds; nan when the timestamp is no valid date
hoursDiff(file, t) ==
    IF file.tsValid THEN [nan |-> FALSE, ms |-> t - file.timestamp]
    ELSE [nan |-> TRUE, ms |-> 0]

\* h < n, h > n for a JavaScript number h in hours: false for NaN
HoursLess(h, n) == ~h.nan /\ h.ms < n * MsPerHour
HoursMore(h, n) == ~h.nan /\ h.ms > n * MsPerHour

\* a getCachedData that gives an envelope up once the advisory age is passed
getCachedDataFreshOnly(ws, file, t) ==
    IF ~cacheFileExists(ws, file) THEN NullData
    ELSE IF file.kind = "corrupt" THEN NullData
    ELSE IF HoursMore(hoursDiff(file, t), AdvisoryHours) THEN NullData
    ELSE file

\* a getCachedData that consults the validity: an envelope aged 24 hours or
\* more, or undated, is given up
getCachedDataValidOnly(ws, file, t) ==
    IF ~cacheFileExists(ws, file) THEN NullData
    ELSE IF file.kind = "corrupt" THEN NullData
    ELSE IF ~HoursLess(hoursDiff(file, t), ValidHours) THEN NullData
    ELSE file

getCachedData(ws, file, t) ==
    IF ~cacheFileExists(ws, file) THEN NullData
    ELSE IF file.kind = "corrupt" THEN NullData
    ELSE file

\* an isCacheValid that still accepts an envelope aged exactly 24 hours
isCacheValidStrict(ws, file, t) ==
    IF ~cacheFileExists(ws, file) THEN FALSE
    ELSE IF file.kind = "corrupt" THEN FALSE
    ELSE ~hoursDiff(file, t).nan /\ hoursDiff(file, t).ms <= ValidHours * MsPerHour

isCacheValid(ws, file, t) ==
    IF ~cacheFileExists(ws, file) THEN FALSE
    ELSE IF file.kind = "corrupt" THEN FALSE
    ELSE HoursLess(hoursDiff(file, t), ValidHours)

\* age.kind "none": the result has no age property
NoAge == [kind |-> "none", nan |-> FALSE, ms |-> 0]

\* a getCacheStatus that reports a corrupt file as a missing one
getCacheStatusAbsentLike(ws, file, t) ==
    IF ~cacheFileExists(ws, file) \/ file.kind = "corrupt"
    THEN [exists |-> FALSE, valid |-> FALSE, age |-> NoAge]
    ELSE [exists |-> TRUE,
          valid |-> HoursLess(hoursDiff(file, t), ValidHours),
          age |-> [kind |-> "num", nan |-> hoursDiff(file, t).nan,
                   ms |-> hoursDiff(file, t).ms]]

\* a getCacheStatus whose valid is !(hoursDiff > 24)
getCacheStatusNotOlder(ws, file, t) ==
    IF ~cacheFileExists(ws, file)
    THEN [exists |-> FALSE, valid |-> FALSE, age |-> NoAge]
    ELSE IF file.kind = "corrupt"
    THEN [exists |-> TRUE, valid |-> FALSE, age |-> NoAge]
    ELSE [exists |-> TRUE,
          valid |-> ~HoursMore(hoursDiff(file, t), ValidHours),
          age |-> [kind |-> "num", nan |-> hoursDiff(file, t).nan,
                   ms |-> hoursDiff(file, t).ms]]

getCacheStatus(ws, file, t) ==
    IF ~cacheFileExists(ws, file)
    THEN [exists |-> FALSE, valid |-> FALSE, age |-> NoAge]
    ELSE IF file.kind = "corrupt"
    THEN [exists |-> TRUE, valid |-> FALSE, age |-> NoAge]
    ELSE [exists |-> TRUE,
          valid |-> HoursLess(hoursDiff(file, t), ValidHours),
          age |-> [kind |-> "num", nan |-> hoursDiff(file, t).nan,
                   ms |-> hoursDiff(file, t).ms]]

\* an advisory raised only while the envelope is still valid
cacheIsGettingOldWhileValid(status) ==
    /\ status.age.kind = "num"
    /\ ~status.age.nan
    /\ status.age.ms # 0
    /\ status.age.ms > AdvisoryHours * MsPerHour
    /\ status.age.ms < ValidHours * MsPerHour

\* an advisory raised only once the envelope is no longer valid
cacheIsGettingOldWhenInvalid(status) ==
    /\ status.age.kind = "num"
    /\ ~status.age.nan
    /\ status.age.ms # 0
    /\ status.age.ms > ValidHours * MsPerHour

\* cacheStatus.age && cacheStatus.age > 12
cacheIsGettingOld(status) ==
    /\ status.age.kind = "num"
    /\ ~status.age.nan
    /\ status.age.ms # 0
    /\ status.age.ms > AdvisoryHours * MsPerHour

-----------------------------------------------------------------------------
(* Parameter and action records *)

\* One parameter: CachedActionParameter / ActionParameter / the parameters of
\* an ActionDefinition.  A field the record type does not have is Undefined
\* (options: the empty sequence); required undefined is FALSE.
Param(key, description, envVar, defaultValue, required, type, options) ==
    [key |-> key, description |-> description, envVar |-> envVar,
     defaultValue |-> defaultValue, required |-> required, type |-> type,
     options |-> options]

\* vscode.CompletionItem: label, detail and the value of its SnippetString
Item(label, detail, insertText) ==
    [label |-> label, detail |-> detail, insertText |-> insertText]

-----------------------------------------------------------------------------
(* Template Synthesizer of the static definitions: action-definitions.ts *)

DefinitionSnippetLimit == 6

commonMappingsOfDefinitions ==
    [app_identifier |-> "bundle_id", workspace |-> "workspace_path",
     scheme |-> "scheme_name", export_method |-> "export_type",
     api_key_path |-> "auth_key_path", username |-> "apple_id",
     team_id |-> "team_id", git_url |-> "repo_url",
     output_directory |-> "output_dir", configuration |-> "config"]

StopWords == {"the", "and", "or", "for", "with", "from", "when", "should"}

RECURSIVE SplitWords(_, _)
\* description.split(/\s+/): cur is the word being read
SplitWords(s, cur) ==
    IF s = "" THEN <<cur>>
    ELSE IF SubSeq(s, 1, 1) = " "
         THEN IF Len(s) > 1 /\ SubSeq(s, 2, 2) = " "
              THEN SplitWords(SubSeq(s, 2, Len(s)), cur)
              ELSE <<cur>> \o SplitWords(SubSeq(s, 2, Len(s)), "")
         ELSE SplitWords(SubSeq(s, 2, Len(s)), cur \o SubSeq(s, 1, 1))

MeaningfulWord(w) == Len(w) >= 3 /\ Len(w) <= 12 /\ w \notin StopWords

getShortParameterNameOfDefinitions(key, description) ==
    IF key \in DOMAIN commonMappingsOfDefinitions
    THEN commonMappingsOfDefinitions[key]
    ELSE IF Len(key) <= 12 THEN key
    ELSE LET words == IF Truthy(description)
                      THEN SplitWords(toLowerCase(description), "")
                      ELSE <<>>
             good == SelectSeq(words, MeaningfulWord)
         IN IF good # <<>> THEN good[1] ELSE Substring0(key, 10)

formatDefaultValueByType(value, type) ==
    CASE type = "boolean" ->
            IF toLowerCase(value) = "true" THEN "true" ELSE "false"
      [] type = "number" -> value
      [] type = "array" ->
            IF Len(value) > 0 /\ SubSeq(value, 1, 1) = "[" THEN value
            ELSE "[" \o value \o "]"
      [] type = "object" ->
            IF Len(value) > 0 /\ SubSeq(value, 1, 1) = "{" THEN value
            ELSE "{" \o value \o "}"
      [] OTHER -> "\"" \o value \o "\""

IsRequired(p) == p.required
IsOptional(p) == ~p.required

\* [...requiredParams, ...optionalParams]
RequiredFirst(params) ==
    SelectSeq(params, IsRequired) \o SelectSeq(params, IsOptional)

\* Array.prototype.filter builds a new array: receiver is the array it was
\* called on as it is after the call, result what it returns
ArrayFilter(receiver, Test(_)) ==
    [receiver |-> receiver, result |-> SelectSeq(receiver, Test)]

\* a selection that orders the parameters array itself, required first
parametersAfterSortingInPlace(parameters, limit) == RequiredFirst(parameters)

\* the parameters array of the record once the synthesizer has selected its
\* parameters: two filters on it; the spread, the slice and the map work on
\* the copies, and the map callback only reads the fields of each parameter
parametersAfterSelecting(parameters, limit) ==
    LET required == ArrayFilter(parameters, IsRequired)
        optional == ArrayFilter(required.receiver, IsOptional)
    IN optional.receiver

selectedParamsOfDefinition(actionDef) ==
    Slice0(RequiredFirst(actionDef.parameters), DefinitionSnippetLimit)

\* a placeholder choice that prefers the declared default to the options
placeholderOfDefinitionDefaultFirst(param, placeholderIndex) ==
    IF param.defaultValue # Undefined
    THEN formatDefaultValueByType(param.defaultValue, param.type)
    ELSE IF Len(param.options) > 0
    THEN "${" \o ToString(placeholderIndex) \o "|"
              \o JoinWith(param.options, ",") \o "|}"
    ELSE "${" \o ToString(placeholderIndex) \o ":"
              \o getShortParameterNameOfDefinitions(param.key, param.description)
              \o "}"

placeholderOfDefinition(param, placeholderIndex) ==
    IF Len(param.options) > 0
    THEN "${" \o ToString(placeholderIndex) \o "|"
              \o JoinWith(param.options, ",") \o "|}"
    ELSE IF param.defaultValue # Undefined
    THEN formatDefaultValueByType(param.defaultValue, param.type)
    ELSE "${" \o ToString(placeholderIndex) \o ":"
              \o getShortParameterNameOfDefinitions(param.key, param.description)
              \o "}"

\* the 'key: placeholder' pairs, before they are joined
pairsOfDefinition(actionDef) ==
    LET sel == selectedParamsOfDefinition(actionDef)
    IN [i \in 1..Len(sel) |->
            [key |-> sel[i].key,
             placeholder |-> placeholderOfDefinition(sel[i], i)]]

PairText(pair) == pair.key \o ": " \o pair.placeholder

PairTexts(pairs) == [i \in 1..Len(pairs) |-> PairText(pairs[i])]

generateSnippetForAction(actionDef) ==
    IF Len(actionDef.parameters) = 0 THEN actionDef.name \o "()"
    ELSE actionDef.name \o "(\n  "
            \o JoinWith(PairTexts(pairsOfDefinition(actionDef)), ",\n  ")
            \o "\n)"

-----------------------------------------------------------------------------
(* Template Synthesizers of the completion provider *)

ProviderSnippetLimit == 5

actionSpecificMappings ==
    [build_app |->
        [workspace |-> "path/to/App.xcworkspace",
         project |-> "path/to/App.xcodeproj", scheme |-> "YourScheme",
         export_method |-> "app-store", configuration |-> "Release",
         output_directory |-> "./build", output_name |-> "App"],
     match |->
        [type |-> "development", app_identifier |-> "com.yourcompany.app",
         git_url |-> "https://github.com/user/certs.git",
         username |-> "your.email@company.com", team_id |-> "XXXXXXXXXX",
         readonly |-> "false", storage_mode |-> "git"],
     upload_to_testflight |->
        [username |-> "your.email@company.com",
         app_identifier |-> "com.yourcompany.app", team_id |-> "XXXXXXXXXX",
         ipa |-> "./build/App.ipa",
         skip_waiting_for_build_processing |-> "true"],
     gradle |->
        [project_dir |-> "./android", tasks |-> "assembleRelease",
         properties |-> "{}", gradle_path |-> "./gradlew"],
     firebase_app_distribution |->
        [app |-> "1:123456789:ios:abcd1234", ipa_path |-> "./build/App.ipa",
         apk_path |-> "./app/build/outputs/apk/release/app-release.apk",
         groups |-> "internal-testers",
         release_notes |-> "New build available for testing"],
     upload_to_play_store |->
        [package_name |-> "com.yourcompany.app", track |-> "internal",
         json_key |-> "./android/key.json",
         aab |-> "./android/app/build/outputs/bundle/release/app-release.aab"]]

commonMappings ==
    [app_identifier |-> "com.company.app", workspace |-> "path/to/workspace",
     scheme |-> "scheme_name", export_method |-> "app-store",
     type |-> "development", readonly |-> "false",
     username |-> "your.email@company.com", password |-> "password",
     team_id |-> "XXXXXXXXXX", project_dir |-> "./project",
     tasks |-> "build_task", track |-> "internal",
     package_name |-> "com.company.app", version |-> "1.0.0",
     initial_build_number |-> "1", platform |-> "ios",
     api_key_path |-> "path/to/key.json", api_key |-> "api_key_info",
     git_url |-> "https://github.com/user/repo.git", storage_mode |-> "git",
     keychain_name |-> "login.keychain"]

getShortParameterName(key, description, actionName) ==
    IF /\ Truthy(actionName)
       /\ actionName \in DOMAIN actionSpecificMappings
       /\ key \in DOMAIN actionSpecificMappings[actionName]
    THEN actionSpecificMappings[actionName][key]
    ELSE IF key \in DOMAIN commonMappings THEN commonMappings[key]
    ELSE IF Len(key) <= 10 THEN key
    ELSE IF Truthy(description) /\ Len(FirstWord(description)) <= 15
    THEN toLowerCase(FirstWord(description))
    ELSE Substring0(key, 10)

selectedParams(parameters) ==
    Slice0(RequiredFirst(parameters), ProviderSnippetLimit)

\* selectedParams.map((param, index) => ...), before the join
paramSnippets(actionName, parameters) ==
    LET sel == selectedParams(parameters)
    IN [i \in 1..Len(sel) |->
            [key |-> sel[i].key,
             placeholder |->
                "${" \o ToString(i) \o ":"
                \o getShortParameterName(sel[i].key, sel[i].description, actionName)
                \o "}"]]

genericSnippet(actionName) == actionName \o "(\n  ${1:# parameters}\n)"

parameterizedSnippet(actionName, parameters) ==
    actionName \o "(\n  "
        \o JoinWith(PairTexts(paramSnippets(actionName, parameters)), ",\n  ")
        \o "\n)"

\* the body of loadActionsFromCache's loop: one cached action to its item;
\* hasParameters is false when cachedAction.parameters is undefined
cachedActionItem(cachedAction) ==
    Item(cachedAction.name, "Fastlane Action (Cached)",
         IF cachedAction.hasParameters /\ Len(cachedAction.parameters) > 0
         THEN parameterizedSnippet(cachedAction.name, cachedAction.parameters)
         ELSE genericSnippet(cachedAction.name))

loadActionsFromCache(cachedActions) ==
    [i \in 1..Len(cachedActions) |-> cachedActionItem(cachedActions[i])]

cachedLaneItem(cachedLane) ==
    Item(cachedLane.name, "Lane (" \o cachedLane.platform \o ") - Cached",
         cachedLane.name \o "(${1:options})")

loadLanesFromCache(cachedLanes) ==
    [i \in 1..Len(cachedLanes) |-> cachedLaneItem(cachedLanes[i])]

\* createParameterizedCompletion once getActionInfo has answered: actionInfo
\* is [found, parameters], found false for null
parameterizedCompletion(actionName, actionInfo) ==
    Item(actionName, "Fastlane Action",
         IF actionInfo.found /\ Len(actionInfo.parameters) > 0
         THEN parameterizedSnippet(actionName, actionInfo.parameters)
         ELSE genericSnippet(actionName))

-----------------------------------------------------------------------------
(* Text helpers of the table parsers *)

\* The ESC character (0x1b) of an ANSI colour code is written ^ in the
\* texts of the model.
Esc == "^"

StartsWith(s, pre) == Len(s) >= Len(pre) /\ SubSeq(s, 1, Len(pre)) = pre

RECURSIVE Includes(_, _)
\* String.prototype.includes
Includes(s, sub) ==
    \/ StartsWith(s, sub)
    \/ s # "" /\ Includes(SubSeq(s, 2, Len(s)), sub)

RECURSIVE SplitPipe(_, _)
\* line.split("|"): cur is the cell being read
SplitPipe(s, cur) ==
    IF s = "" THEN <<cur>>
    ELSE IF SubSeq(s, 1, 1) = "|"
         THEN <<cur>> \o SplitPipe(SubSeq(s, 2, Len(s)), "")
         ELSE SplitPipe(SubSeq(s, 2, Len(s)), cur \o SubSeq(s, 1, 1))

IsSpace(c) == c \in {" ", "\t", "\r"}

RECURSIVE TrimStart(_)
TrimStart(s) ==
    IF s # "" /\ IsSpace(SubSeq(s, 1, 1)) THEN TrimStart(SubSeq(s, 2, Len(s)))
    ELSE s

RECURSIVE TrimEnd(_)
TrimEnd(s) ==
    IF s # "" /\ IsSpace(SubSeq(s, Len(s), Len(s)))
    THEN TrimEnd(SubSeq(s, 1, Len(s) - 1))
    ELSE s

\* String.prototype.trim
Trim(s) == TrimEnd(TrimStart(s))

RECURSIVE AnsiEnd(_, _)
\* s[i..] read as [0-9;]*m : the index of the closing m, or 0 when the
\* characters from i on are no such sequence
AnsiEnd(s, i) ==
    IF i > Len(s) THEN 0
    ELSE IF SubSeq(s, i, i) = "m" THEN i
    ELSE IF SubSeq(s, i, i) \in DigitChars \cup {";"} THEN AnsiEnd(s, i + 1)
    ELSE 0

RECURSIVE StripAnsi(_)
\* s.replace(/\x1b\[[0-9;]*m/g, "")
StripAnsi(s) ==
    IF s = "" THEN ""
    ELSE IF StartsWith(s, Esc \o "[") /\ AnsiEnd(s, 3) # 0
         THEN StripAnsi(SubSeq(s, AnsiEnd(s, 3) + 1, Len(s)))
         ELSE SubSeq(s, 1, 1) \o StripAnsi(SubSeq(s, 2, Len(s)))

CleanCell(part) == Trim(StripAnsi(part))

NonEmpty(part) == part # ""

\* line.split("|").map(strip, trim).filter(part => part !== "")
rowParts(line) ==
    LET cells == SplitPipe(line, "")
    IN SelectSeq([i \in 1..Len(cells) |-> CleanCell(cells[i])], NonEmpty)

-----------------------------------------------------------------------------
(* Requiredness Inference and the per-action detail parsers *)

requiredParams ==
    [build_app |-> {"scheme"},
     match |-> {"type", "app_identifier"},
     upload_to_testflight |-> {"app_identifier"},
     gradle |-> {"tasks"},
     upload_to_play_store |-> {"package_name", "track"},
     firebase_app_distribution |-> {"app"},
     get_version_number |-> {},
     latest_testflight_build_number |-> {"app_identifier"}]

inOverrideTable(actionName, key) ==
    actionName \in DOMAIN requiredParams /\ key \in requiredParams[actionName]

\* a heuristic that asks for no env var also when the default is "*"
isParameterRequiredConjunctive(actionName, key, defaultVal, envVar) ==
    IF inOverrideTable(actionName, key) THEN TRUE
    ELSE (defaultVal = "*" \/ ~Truthy(defaultVal)) /\ ~Truthy(envVar)

isParameterRequired(actionName, key, defaultVal, envVar) ==
    IF inOverrideTable(actionName, key) THEN TRUE
    ELSE defaultVal = "*" \/ (~Truthy(defaultVal) /\ ~Truthy(envVar))

\* parts[i] when the row has it, else ""
PartOr(parts, i) == IF Len(parts) >= i THEN parts[i] ELSE ""

\* a row reader that takes any first cell but the header's for a key
parameterOfRowAnyKey(actionName, parts) ==
    IF Len(parts) < 2 \/ parts[1] = "Key" THEN <<>>
    ELSE <<Param(parts[1], parts[2], OrElse(PartOr(parts, 3), Undefined),
                 IF Truthy(PartOr(parts, 4)) /\ PartOr(parts, 4) # "*"
                 THEN PartOr(parts, 4) ELSE Undefined,
                 isParameterRequired(actionName, parts[1], PartOr(parts, 4),
                                     PartOr(parts, 3)),
                 Undefined, <<>>)>>

\* parseActionInfo, lines 633-663: the records one parameter row adds
parameterOfRow(actionName, parts) ==
    IF Len(parts) < 2 THEN <<>>
    ELSE LET key == parts[1]
             desc == parts[2]
             envVar == PartOr(parts, 3)
             defaultVal == PartOr(parts, 4)
         IN IF /\ key # "Key"
               /\ IsParamKey(key)
               /\ ~Includes(key, "Description")
               /\ ~Includes(key, "Env")
               /\ ~Includes(key, "Default")
            THEN <<Param(key, desc,
                         OrElse(envVar, Undefined),
                         IF Truthy(defaultVal) /\ defaultVal # "*"
                         THEN defaultVal ELSE Undefined,
                         isParameterRequired(actionName, key, defaultVal, envVar),
                         Undefined, <<>>)>>
            ELSE <<>>

isParametersHeader(line) ==
    /\ Includes(line, "Options")
    /\ ~Includes(line, "Output")
    /\ ~Includes(line, "Return")
    /\ \/ Includes(line, "Description")
       \/ Includes(line, "Environment")
       \/ Includes(line, "Default")

isOutputSection(line) ==
    \/ Includes(line, "Output Variables")
    \/ Includes(line, "Return Value")
    \/ Includes(line, "Output") /\ Includes(line, "Variables")

isRowSeparator(line) ==
    Includes(line, "---") \/ Includes(line, "===") \/ Includes(line, "+++")

isOtherSection(line) ==
    \/ Includes(line, "More information")
    \/ Includes(line, "Lane Variables")
    \/ Includes(line, "Output Variables")
    \/ Includes(line, "Return Value")

RECURSIVE parseActionInfoFrom(_, _, _, _, _)
\* the loop of parseActionInfo from line i on; the description it recovers
\* is not part of a completion item's template and is left out
parseActionInfoFrom(actionName, lines, i, inParametersSection, sectionHeaderFound) ==
    IF i > Len(lines) THEN <<>>
    ELSE LET line == lines[i] IN
         IF isParametersHeader(line)
         THEN parseActionInfoFrom(actionName, lines, i + 1, TRUE, TRUE)
         ELSE IF inParametersSection /\ isOutputSection(line) THEN <<>>
         ELSE IF inParametersSection /\ Includes(line, "|")
         THEN IF isRowSeparator(line)
              THEN parseActionInfoFrom(actionName, lines, i + 1,
                                       inParametersSection, sectionHeaderFound)
              ELSE parameterOfRow(actionName, rowParts(line))
                   \o (IF sectionHeaderFound /\ isOtherSection(line) THEN <<>>
                       ELSE parseActionInfoFrom(actionName, lines, i + 1,
                                                inParametersSection,
                                                sectionHeaderFound))
         ELSE IF inParametersSection /\ sectionHeaderFound /\ isOtherSection(line)
         THEN <<>>
         ELSE parseActionInfoFrom(actionName, lines, i + 1,
                                  inParametersSection, sectionHeaderFound)

\* parseActionInfo(actionName, output): the parameters of the ActionInfo;
\* lines is output.split("\n")
parseActionInfo(actionName, lines) ==
    parseActionInfoFrom(actionName, lines, 1, FALSE, FALSE)

\* the cache initializer: init-fastlane-data.js

\* parseActionParameters, lines 246-261: the records one row adds
initializerParameterOfRow(parts) ==
    IF Len(parts) < 2 THEN <<>>
    ELSE LET key == parts[1]
             description == parts[2]
             envVar == PartOr(parts, 3)
             defaultValue == PartOr(parts, 4)
         IN IF IsParamKey(key)
            THEN <<Param(key, description,
                         OrElse(envVar, Undefined),
                         OrElse(defaultValue, Undefined),
                         ~Truthy(defaultValue) /\ ~Truthy(envVar),
                         Undefined, <<>>)>>
            ELSE <<>>

RECURSIVE parseActionParametersFrom(_, _, _)
parseActionParametersFrom(lines, i, inParametersSection) ==
    IF i > Len(lines) THEN <<>>
    ELSE LET line == lines[i] IN
         IF Includes(line, "Options") \/ Includes(line, "Parameters")
         THEN parseActionParametersFrom(lines, i + 1, TRUE)
         ELSE IF /\ inParametersSection
                 /\ Includes(line, "|")
                 /\ ~Includes(line, "Key")
                 /\ ~Includes(line, "---")
                 /\ ~Includes(line, "+")
         THEN initializerParameterOfRow(rowParts(line))
              \o parseActionParametersFrom(lines, i + 1, inParametersSection)
         ELSE parseActionParametersFrom(lines, i + 1, inParametersSection)

\* parseActionParameters(output); lines is output.split('\n')
parseActionParameters(lines) == parseActionParametersFrom(lines, 1, FALSE)

-----------------------------------------------------------------------------
(* Action and lane discovery of the completion provider *)

commonActions ==
    {"build_app", "match", "upload_to_testflight", "gradle",
     "upload_to_play_store", "firebase_app_distribution"}

\* a line reader that does not skip the header row of the actions table
actionOfLineKeepingHeader(line) ==
    IF Includes(line, "|") /\ ~Includes(line, "---") /\ ~Includes(line, "+")
    THEN LET cells == SplitPipe(line, "")
             parts == [i \in 1..Len(cells) |-> Trim(cells[i])]
         IN IF Len(parts) >= 2 /\ IsActionName(Trim(StripAnsi(parts[2])))
            THEN <<Item(Trim(StripAnsi(parts[2])), "Fastlane Action", Undefined)>>
            ELSE <<>>
    ELSE <<>>

\* parseActionsFromCLIOutput, lines 490-512: the items one line adds
actionOfLine(line) ==
    IF /\ Includes(line, "|")
       /\ ~Includes(line, "Action")
       /\ ~Includes(line, "---")
       /\ ~Includes(line, "+")
    THEN LET cells == SplitPipe(line, "")
             parts == [i \in 1..Len(cells) |-> Trim(cells[i])]
         IN IF Len(parts) >= 2 /\ parts[2] # ""
            THEN LET actionName == Trim(StripAnsi(parts[2]))
                 IN IF IsActionName(actionName)
                    THEN <<Item(actionName, "Fastlane Action", Undefined)>>
                    ELSE <<>>
            ELSE <<>>
    ELSE <<>>

RECURSIVE parseActionsFromCLIOutput(_)
\* lines is output.split("\n")
parseActionsFromCLIOutput(lines) ==
    IF lines = <<>> THEN <<>>
    ELSE actionOfLine(Head(lines)) \o parseActionsFromCLIOutput(Tail(lines))

\* parseLanesFromJSON.  json.ok is false when JSON.parse throws (or yields
\* null, on which Object.entries throws): the catch leaves the list empty.
\* json.platforms is Object.entries(lanesData); an entry whose value is no
\* object (isObject false) is skipped.
laneItemsOfPlatform(entry) ==
    IF entry.isObject
    THEN [i \in 1..Len(entry.lanes) |->
            Item(entry.lanes[i], "Lane (" \o entry.platform \o ")",
                 entry.lanes[i] \o "(${1:options})")]
    ELSE <<>>

RECURSIVE laneItemsOfPlatforms(_)
laneItemsOfPlatforms(entries) ==
    IF entries = <<>> THEN <<>>
    ELSE laneItemsOfPlatform(Head(entries)) \o laneItemsOfPlatforms(Tail(entries))

parseLanesFromJSON(json) ==
    IF json.ok THEN laneItemsOfPlatforms(json.platforms) ELSE <<>>

RECURSIVE WordPrefix(_)
\* the longest prefix of s made of \w characters
WordPrefix(s) ==
    IF s = "" THEN ""
    ELSE LET c == SubSeq(s, 1, 1) IN
         IF IsLetter(c) \/ c \in DigitChars \/ c = "_"
         THEN c \o WordPrefix(SubSeq(s, 2, Len(s)))
         ELSE ""

\* /(?:^|\n)\s*(?:private_)?lane\s+:(\w+)/ on one line of the Fastfile: the
\* lane name, or "" when the line declares no lane
laneOfLine(line) ==
    LET t == TrimStart(line)
        u == IF StartsWith(t, "private_lane") THEN SubSeq(t, 9, Len(t)) ELSE t
    IN IF StartsWith(u, "lane") /\ Len(u) > 4 /\ IsSpace(SubSeq(u, 5, 5))
       THEN LET v == TrimStart(SubSeq(u, 5, Len(u)))
            IN IF StartsWith(v, ":") THEN WordPrefix(SubSeq(v, 2, Len(v)))
               ELSE ""
       ELSE ""

RECURSIVE parseLanes(_)
\* parseLanes(content); lines are the lines of content
parseLanes(lines) ==
    IF lines = <<>> THEN <<>>
    ELSE (IF laneOfLine(Head(lines)) # ""
          THEN <<Item(laneOfLine(Head(lines)), "Existing Lane",
                      laneOfLine(Head(lines)) \o "(${1:options})")>>
          ELSE <<>>)
         \o parseLanes(Tail(lines))

\* loadExistingLanes.  file.kind "absent": no workspace folder holds
\* fastlane/Fastfile; "unreadable": existsSync is true and readFileSync
\* throws (no read permission, or Fastfile is a directory); "file": lines.
\* The result says whether the call threw.
loadExistingLanes(ws, file) ==
    IF ~ws \/ file.kind = "absent" THEN [threw |-> FALSE, items |-> <<>>]
    ELSE IF file.kind = "unreadable" THEN [threw |-> TRUE, items |-> <<>>]
    ELSE [threw |-> FALSE, items |-> parseLanes(file.lines)]

\* ACCURATE_ACTION_DEFINITIONS: two of its eleven entries
ACCURATE_ACTION_DEFINITIONS ==
    <<[name |-> "get_build_number",
       platforms |-> <<"ios", "mac">>,
       parameters |->
         <<Param("xcodeproj",
                 "Path to your main Xcode project if it is not in the project root directory",
                 Undefined, Undefined, FALSE, "string", <<>>),
           Param("hide_error_when_versioning_disabled",
                 "Used during fastlane init to hide the error message",
                 Undefined, "false", FALSE, "boolean", <<>>)>>],
      [name |-> "latest_testflight_build_number",
       platforms |-> <<"ios">>,
       parameters |->
         <<Param("api_key_path", "Path to App Store Connect API Key JSON file",
                 Undefined, Undefined, FALSE, "string", <<>>),
           Param("api_key", "App Store Connect API Key information",
                 Undefined, Undefined, FALSE, "object", <<>>),
           Param("app_identifier", "Bundle identifier of the app",
                 Undefined, Undefined, TRUE, "string", <<>>),
           Param("version", "Version number to fetch latest build number for",
                 Undefined, Undefined, FALSE, "string", <<>>),
           Param("platform", "Platform (ios, appletvos, osx)",
                 Undefined, "ios", FALSE, "string", <<"ios", "appletvos", "osx">>),
           Param("username", "Apple ID Username",
                 Undefined, Undefined, FALSE, "string", <<>>),
           Param("team_id", "App Store Connect team ID",
                 Undefined, Undefined, FALSE, "string", <<>>),
           Param("initial_build_number", "Default build number if no build exists",
                 Undefined, "1", FALSE, "number", <<>>)>>]>>

\* getAdditionalStandardFastlaneActions: three of its entries
getAdditionalStandardFastlaneActions ==
    <<Item("sh", "Shell Command", "sh(\"${1:command}\")"),
      Item("lane", "Define Lane",
           "lane :${1:lane_name} do |options|\n  ${2:# lane implementation}\nend"),
      Item("git_add", "Git Add", "git_add(path: \"${1:.}\")")>>

loadStandardFastlaneActions ==
    [i \in 1..Len(ACCURATE_ACTION_DEFINITIONS) |->
        Item(ACCURATE_ACTION_DEFINITIONS[i].name,
             "Fastlane Action ("
                \o JoinWith(ACCURATE_ACTION_DEFINITIONS[i].platforms, ", ") \o ")",
             generateSnippetForAction(ACCURATE_ACTION_DEFINITIONS[i]))]
    \o getAdditionalStandardFastlaneActions

-----------------------------------------------------------------------------
(* The environment the model draws from *)

NowMs == 100 * MsPerHour

\* ages of a cached envelope, in milliseconds: around the 12 h and 24 h
\* boundaries, fresh, old, and written in the future
CacheAges ==
    {0, 1, AdvisoryHours * MsPerHour - 1, AdvisoryHours * MsPerHour,
     AdvisoryHours * MsPerHour + 1, ValidHours * MsPerHour - 1000,
     ValidHours * MsPerHour, ValidHours * MsPerHour + 1,
     36 * MsPerHour, 0 - MsPerHour}

CachedParams ==
    <<Param("readonly", "Only fetch", "MATCH_READONLY", "false", FALSE,
            Undefined, <<>>),
      Param("type", "Define the profile type", "MATCH_TYPE", Undefined, TRUE,
            Undefined, <<>>)>>

CachedActionPool ==
    {[name |-> "match", hasParameters |-> TRUE, parameters |-> CachedParams],
     [name |-> "my_plugin", hasParameters |-> TRUE, parameters |-> <<>>],
     [name |-> "adb", hasParameters |-> FALSE, parameters |-> <<>>]}

SeqsUpTo(S, n) == UNION {[1..k -> S] : k \in 0..n}

CachedLanePool ==
    {<<>>, <<[name |-> "beta", platform |-> "ios"]>>}

\* the JSON objects the cache file may hold
CacheEnvelopes ==
    {[kind |-> "json", hasActions |-> ha, hasLanes |-> hl, tsValid |-> tv,
      timestamp |-> IF tv THEN NowMs - age ELSE 0,
      actions |-> IF ha THEN acts ELSE <<>>,
      lanes |-> IF hl THEN lns ELSE <<>>] :
        ha \in BOOLEAN, hl \in BOOLEAN, tv \in BOOLEAN, age \in CacheAges,
        acts \in SeqsUpTo(CachedActionPool, MaxCachedActions),
        lns \in CachedLanePool}

CacheFiles == {NoFile, CorruptFile} \cup CacheEnvelopes

NoFastfile == [kind |-> "absent", lines |-> <<>>]

Fastfiles ==
    {NoFastfile,
     [kind |-> "unreadable", lines |-> <<>>],
     [kind |-> "file", lines |-> <<>>],
     [kind |-> "file",
      lines |-> <<"default_platform(:ios)", "  lane :beta do",
                  "private_lane :sign do |options|", "# lane: none">>]}

\* rows of the table 'fastlane actions' prints
ActionRowPool ==
    {"| match | Sync certificates | KrauseFx |",
     "| " \o Esc \o "[32mgradle" \o Esc \o "[0m | Run gradle | x |",
     "| my_plugin | A plugin action | me |"}

ActionsOutputs ==
    {<<"+--------+-------------+--------+",
       "| Action | Description | Author |",
       "+--------+-------------+--------+">> \o rows :
        rows \in SeqsUpTo(ActionRowPool, MaxListed)}

\* what 'fastlane action <name>' prints
ActionInfoOutputs ==
    {<<>>,
     <<"| match Options | Description | Default |",
       "+------+---------+---------+---------+",
       "| Key | Description | Env Var | Default |",
       "| type | Define the profile type | MATCH_TYPE | development |",
       "| readonly | Only fetch | MATCH_READONLY | false |",
       "| git_url | URL of the repo | MATCH_GIT_URL |",
       "| match Output Variables |",
       "| SHARED_VALUE | A value |">>,
     <<"| Options | Description |",
       "| tasks | The gradle tasks |",
       "| flags | All flags | FL_GRADLE_FLAGS | * |">>}

\* what 'fastlane lanes --json' prints, once JSON.parse has read it
LanesOutputs ==
    {[ok |-> FALSE, platforms |-> <<>>],
     [ok |-> TRUE, platforms |-> <<>>],
     [ok |-> TRUE,
      platforms |-> <<[platform |-> "ios", isObject |-> TRUE,
                       lanes |-> <<"beta", "release">>],
                      [platform |-> "note", isObject |-> FALSE,
                       lanes |-> <<>>]>>]}

Contexts == {"insideActionParameters", "laneOrTopLevel", "elsewhere"}

-----------------------------------------------------------------------------
(* The Fallback Resolution Chain: FastlaneCompletionProvider.loadAllActions *)

NoStatus == [exists |-> FALSE, valid |-> FALSE, age |-> NoAge]

Info(text) == [level |-> "info", text |-> text]

CacheOldMessage ==
    Info("Fastlane cache is getting old. Consider running \"Fastlane Autocomplete: Refresh Data\" command.")

InitCacheMessage ==
    Info("Initialize Fastlane data cache for better performance?")

\* no command of the extension has been run.  commandRuns holds one record
\* per run of a command handler: its name, where the handler stands (pc) and
\* what it ended with (result)
NoCommand == <<>>

\* how often the initializer script is run in one behaviour
MaxScriptRuns == 2

\* a lookup of getCommonActions that has not settled, and the null a lookup
\* resolves to; an ActionInfo is stood for by the name of its action
PendingInfo == "<pending>"

NullInfo == "<null>"

\* a FastlaneDocsFetcher on which getCommonActions has not been called: pc
\* is where the call stands, i its loop index, values what each getActionInfo
\* call made so far resolved to (in the order of the names), failed the
\* names whose fetch threw, actions the array being filled, actionCache the
\* Map as a set of [name, timestamp]
NoFetcher ==
    [pc |-> "idle", i |-> 0, values |-> <<>>, failed |-> {},
     actions |-> <<>>, actionCache |-> {}]

\* no initializer process: pc is where init() stands, code its exit code,
\* before the cache file as it was when the process started.  Three fields
\* outlive a process: runs counts the processes started, outputs holds what
\* the tool answered to each subprocess call of the first run, in call order,
\* and left is the envelope the process before this one wrote to its end
NoInitializer ==
    [pc |-> "none", code |-> 0, actions |-> <<>>, actionsFailed |-> FALSE,
     lanes |-> <<>>, todo |-> <<>>, spawned |-> <<>>, before |-> NoFile,
     written |-> NoFile, runs |-> 0, outputs |-> <<>>, left |-> NoFile]

Init ==
    /\ workspace \in BOOLEAN
    /\ cacheFile \in CacheFiles
    /\ workspace = FALSE => cacheFile = NoFile
    /\ fastfile \in Fastfiles
    /\ workspace = FALSE => fastfile = NoFastfile
    /\ now = NowMs
    /\ pc = "new"
    /\ cachedData = NullData
    /\ cacheStatus = NoStatus
    /\ local = <<>>
    /\ fastlaneActions = <<>>
    /\ queue = <<>>
    /\ enhanced = <<>>
    /\ actionInfoCache = <<>>
    /\ allActions = <<>>
    /\ spawned = <<>>
    /\ inflight = {}
    /\ notifications = <<>>
    /\ loadState = "none"
    /\ provided = [returned |-> FALSE, items |-> <<>>]
    /\ probe = [op |-> "none"]
    /\ commandRuns = NoCommand
    /\ initializer = NoInitializer
    /\ fetcher = NoFetcher

\* exec(command): the subprocess is started
Spawn(command) ==
    /\ spawned' = Append(spawned, command)
    /\ inflight' = inflight \cup {command}

\* the subprocess has exited, timed out or could not be started
Settle(command) == inflight' = inflight \ {command}

RECURSIVE enhanceUntilAwaitEveryAction(_, _, _, _)
\* a loop that asks for the detail of every listed action
enhanceUntilAwaitEveryAction(ws, todo, done, cache) ==
    IF todo = <<>> THEN [queue |-> <<>>, enhanced |-> done, need |-> ""]
    ELSE LET actionName == Head(todo).label IN
         IF actionName \in DOMAIN cache
         THEN enhanceUntilAwaitEveryAction(ws, Tail(todo),
                  Append(done, parameterizedCompletion(actionName,
                      [found |-> TRUE, parameters |-> cache[actionName]])),
                  cache)
         ELSE IF ~ws
         THEN enhanceUntilAwaitEveryAction(ws, Tail(todo),
                  Append(done, parameterizedCompletion(actionName,
                      [found |-> FALSE, parameters |-> <<>>])),
                  cache)
         ELSE [queue |-> todo, enhanced |-> done, need |-> actionName]

RECURSIVE enhanceUntilAwait(_, _, _, _)
\* The loop of loadFastlaneActionsFromCLI (lines 439-450) run up to the next
\* subprocess: the basic actions it consumed are moved to done.  need is the
\* action whose 'fastlane action' call it waits for, "" when the loop ended.
enhanceUntilAwait(ws, todo, done, cache) ==
    IF todo = <<>> THEN [queue |-> <<>>, enhanced |-> done, need |-> ""]
    ELSE LET actionName == Head(todo).label IN
         IF actionName \in commonActions
         THEN IF actionName \in DOMAIN cache
              THEN enhanceUntilAwait(ws, Tail(todo),
                       Append(done, parameterizedCompletion(actionName,
                           [found |-> TRUE, parameters |-> cache[actionName]])),
                       cache)
              ELSE IF ~ws
              THEN enhanceUntilAwait(ws, Tail(todo),
                       Append(done, parameterizedCompletion(actionName,
                           [found |-> FALSE, parameters |-> <<>>])),
                       cache)
              ELSE [queue |-> todo, enhanced |-> done, need |-> actionName]
         ELSE enhanceUntilAwait(ws, Tail(todo),
                  Append(done, [Head(todo) EXCEPT
                                  !.insertText = genericSnippet(actionName)]),
                  cache)

\* this.allActions = allActions: the promise resolves
Publish(items) ==
    /\ allActions' = items
    /\ local' = items
    /\ loadState' = "resolved"
    /\ pc' = "done"

\* an exception leaves loadAllActions: the promise rejects, nothing is published
Reject(items) ==
    /\ allActions' = allActions
    /\ local' = items
    /\ loadState' = "rejected"
    /\ pc' = "failed"

\* lines 311-340 once loadLanesFromCLI has answered: lanes is its result,
\* [threw, items]
finishLiveDiscovery(lanes) ==
    IF ~lanes.threw
    THEN /\ Publish(local \o lanes.items
                    \o (IF Len(fastlaneActions) = 0
                        THEN loadStandardFastlaneActions ELSE <<>>))
         /\ notifications' = Append(notifications, InitCacheMessage)
    ELSE \* catch (error), lines 332-340
         LET again == loadExistingLanes(workspace, fastfile)
         IN /\ IF again.threw
               THEN Reject(local \o loadStandardFastlaneActions)
               ELSE Publish(local \o loadStandardFastlaneActions \o again.items)
            /\ notifications' = notifications

\* a chain that shows the actions it has found before the lanes are listed
startLanesPublishingActions(items) ==
    /\ fastlaneActions' = items
    /\ local' = local \o items
    /\ allActions' = local \o items
    /\ pc' = "awaitLanes"
    /\ UNCHANGED <<loadState, notifications>>

\* lines 308-312 once loadFastlaneActionsFromCLI has answered with items:
\* they are pushed and loadLanesFromCLI starts 'fastlane lanes --json'
startLanes(items) ==
    /\ fastlaneActions' = items
    /\ local' = local \o items
    /\ pc' = "awaitLanes"
    /\ UNCHANGED <<allActions, loadState, notifications>>

\* lines 278-302: the cache supplies the whole completion set
loadFromCache(data) ==
    IF ~data.hasActions \/ ~data.hasLanes
    THEN \* cachedActions.length / for..of cachedLanes on undefined throws
         /\ Reject(IF data.hasActions THEN loadActionsFromCache(data.actions)
                   ELSE <<>>)
         /\ UNCHANGED <<cacheStatus, notifications>>
    ELSE /\ cacheStatus' = getCacheStatus(workspace, cacheFile, now)
         /\ notifications' =
                IF cacheIsGettingOld(getCacheStatus(workspace, cacheFile, now))
                THEN Append(notifications, CacheOldMessage)
                ELSE notifications
         /\ Publish(loadActionsFromCache(data.actions)
                    \o loadLanesFromCache(data.lanes))

\* new FastlaneCompletionProvider(): the constructor calls loadAllActions,
\* which runs up to its first subprocess
Construct ==
    /\ pc = "new"
    /\ cachedData' = getCachedData(workspace, cacheFile, now)
    /\ IF getCachedData(workspace, cacheFile, now) # NullData
       THEN /\ loadFromCache(getCachedData(workspace, cacheFile, now))
            /\ UNCHANGED <<fastlaneActions, spawned, inflight>>
       ELSE IF ~workspace
       THEN \* both loaders return [] without a subprocess
            /\ Publish(loadStandardFastlaneActions)
            /\ notifications' = Append(notifications, InitCacheMessage)
            /\ UNCHANGED <<cacheStatus, fastlaneActions, spawned, inflight>>
       ELSE /\ Spawn("fastlane actions")
            /\ pc' = "awaitActions"
            /\ loadState' = "pending"
            /\ UNCHANGED <<cacheStatus, local, fastlaneActions, allActions,
                           notifications>>
    /\ UNCHANGED <<commandRuns, initializer, fetcher, workspace, cacheFile, now, fastfile, queue, enhanced,
                   actionInfoCache, provided, probe>>

\* a chain that, finding no action, goes straight to the static definitions
\* and does not list the lanes
continueEnhancingShortCircuit(todo, done, cache, settled) ==
    LET r == enhanceUntilAwait(workspace, todo, done, cache)
    IN /\ queue' = r.queue
       /\ enhanced' = r.enhanced
       /\ IF r.need # ""
          THEN /\ spawned' = Append(spawned, "fastlane action " \o r.need)
               /\ inflight' = (inflight \ {settled})
                                \cup {"fastlane action " \o r.need}
               /\ pc' = "awaitActionInfo"
               /\ UNCHANGED <<local, fastlaneActions, allActions, loadState,
                              notifications>>
          ELSE IF r.enhanced = <<>>
          THEN /\ spawned' = spawned
               /\ inflight' = inflight \ {settled}
               /\ fastlaneActions' = <<>>
               /\ Publish(local \o loadStandardFastlaneActions)
               /\ notifications' = Append(notifications, InitCacheMessage)
          ELSE /\ spawned' = Append(spawned, "fastlane lanes --json")
               /\ inflight' = (inflight \ {settled}) \cup {"fastlane lanes --json"}
               /\ startLanes(r.enhanced)

\* a chain that starts listing the lanes while it still waits for the detail
\* of an action
continueEnhancingRacingLanes(todo, done, cache, settled) ==
    LET r == enhanceUntilAwait(workspace, todo, done, cache)
    IN /\ queue' = r.queue
       /\ enhanced' = r.enhanced
       /\ IF r.need # ""
          THEN /\ spawned' = spawned \o <<"fastlane action " \o r.need,
                                          "fastlane lanes --json">>
               /\ inflight' = (inflight \ {settled})
                                \cup {"fastlane action " \o r.need,
                                      "fastlane lanes --json"}
               /\ pc' = "awaitActionInfo"
               /\ UNCHANGED <<local, fastlaneActions, allActions, loadState,
                              notifications>>
          ELSE /\ spawned' = Append(spawned, "fastlane lanes --json")
               /\ inflight' = (inflight \ {settled}) \cup {"fastlane lanes --json"}
               /\ startLanes(r.enhanced)

\* The loop of loadFastlaneActionsFromCLI goes on from todo / done once the
\* subprocess settled has answered: it either starts the next
\* 'fastlane action', or ends, and loadLanesFromCLI lists the lanes even
\* when no action was found.
continueEnhancing(todo, done, cache, settled) ==
    LET r == enhanceUntilAwait(workspace, todo, done, cache)
    IN /\ queue' = r.queue
       /\ enhanced' = r.enhanced
       /\ IF r.need # ""
          THEN /\ spawned' = Append(spawned, "fastlane action " \o r.need)
               /\ inflight' = (inflight \ {settled})
                                \cup {"fastlane action " \o r.need}
               /\ pc' = "awaitActionInfo"
               /\ UNCHANGED <<local, fastlaneActions, allActions, loadState,
                              notifications>>
          ELSE /\ spawned' = Append(spawned, "fastlane lanes --json")
               /\ inflight' = (inflight \ {settled}) \cup {"fastlane lanes --json"}
               /\ startLanes(r.enhanced)

\* 'fastlane actions' exits with its table on stdout
ActionsListed ==
    /\ pc = "awaitActions"
    /\ \E lines \in ActionsOutputs :
          continueEnhancing(parseActionsFromCLIOutput(lines), <<>>,
                            actionInfoCache, "fastlane actions")
    /\ UNCHANGED <<commandRuns, initializer, fetcher, workspace, cacheFile, now, fastfile, cachedData, cacheStatus,
                   actionInfoCache, provided, probe>>

\* 'fastlane actions' is not found, times out or exits non-zero: the catch of
\* loadFastlaneActionsFromCLI returns []
ActionsFailed ==
    /\ pc = "awaitActions"
    /\ continueEnhancing(<<>>, <<>>, actionInfoCache, "fastlane actions")
    /\ UNCHANGED <<commandRuns, initializer, fetcher, workspace, cacheFile, now, fastfile, cachedData, cacheStatus,
                   actionInfoCache, provided, probe>>

\* 'fastlane action <name>' exits: getActionInfo parses and caches the text
ActionInfoFetched ==
    /\ pc = "awaitActionInfo"
    /\ \E lines \in ActionInfoOutputs :
          LET actionName == Head(queue).label
              parameters == parseActionInfo(actionName, lines)
              cache == (actionName :> parameters) @@ actionInfoCache
          IN /\ actionInfoCache' = cache
             /\ continueEnhancing(Tail(queue),
                    Append(enhanced, parameterizedCompletion(actionName,
                        [found |-> TRUE, parameters |-> parameters])),
                    cache, "fastlane action " \o actionName)
    /\ UNCHANGED <<commandRuns, initializer, fetcher, workspace, cacheFile, now, fastfile, cachedData, cacheStatus,
                   provided, probe>>

\* 'fastlane action <name>' fails: getActionInfo returns null
ActionInfoFailed ==
    /\ pc = "awaitActionInfo"
    /\ continueEnhancing(Tail(queue),
           Append(enhanced, parameterizedCompletion(Head(queue).label,
               [found |-> FALSE, parameters |-> <<>>])),
           actionInfoCache, "fastlane action " \o Head(queue).label)
    /\ UNCHANGED <<commandRuns, initializer, fetcher, workspace, cacheFile, now, fastfile, cachedData, cacheStatus,
                   actionInfoCache, provided, probe>>

\* 'fastlane lanes --json' exits with its output on stdout
lanesListed(json) ==
    /\ pc = "awaitLanes"
    /\ Settle("fastlane lanes --json")
    /\ finishLiveDiscovery([threw |-> FALSE, items |-> parseLanesFromJSON(json)])
    /\ UNCHANGED <<commandRuns, initializer, fetcher, workspace, cacheFile, now, fastfile, cachedData, cacheStatus,
                   fastlaneActions, queue, enhanced, actionInfoCache, spawned,
                   provided, probe>>

LanesListed == \E json \in LanesOutputs : lanesListed(json)

\* 'fastlane lanes --json' fails: the catch of loadLanesFromCLI scans the Fastfile
LanesFailed ==
    /\ pc = "awaitLanes"
    /\ Settle("fastlane lanes --json")
    /\ finishLiveDiscovery(loadExistingLanes(workspace, fastfile))
    /\ UNCHANGED <<commandRuns, initializer, fetcher, workspace, cacheFile, now, fastfile, cachedData, cacheStatus,
                   fastlaneActions, queue, enhanced, actionInfoCache, spawned,
                   provided, probe>>

\* provideCompletionItems(document, position); context is what the three
\* cursor tests (isInsideActionParameters, isInsideLaneDefinition,
\* isTopLevel) say of the position
provideCompletionItems(context) ==
    /\ pc # "new"
    /\ provided' = [returned |-> TRUE,
                    items |-> IF context = "laneOrTopLevel" THEN allActions
                              ELSE <<>>]
    /\ UNCHANGED <<commandRuns, initializer, fetcher, workspace, cacheFile, now, fastfile, pc, cachedData,
                   cacheStatus, local, fastlaneActions, queue, enhanced,
                   actionInfoCache, allActions, spawned, inflight,
                   notifications, loadState, probe>>

ProvideCompletionItems == \E context \in Contexts : provideCompletionItems(context)

Next ==
    \/ Construct
    \/ ActionsListed
    \/ ActionsFailed
    \/ ActionInfoFetched
    \/ ActionInfoFailed
    \/ LanesListed
    \/ LanesFailed
    \/ ProvideCompletionItems

Spec == Init /\ [][Next]_vars

-----------------------------------------------------------------------------
(* The Knowledge Cache called on its own: any caller, any state of the file *)

\* the provider is not constructed; one function is applied, once, and its
\* input and output are kept in probe
IdleExtension ==
    /\ now = NowMs
    /\ pc = "off"
    /\ cachedData = NullData
    /\ cacheStatus = NoStatus
    /\ local = <<>>
    /\ fastlaneActions = <<>>
    /\ queue = <<>>
    /\ enhanced = <<>>
    /\ actionInfoCache = <<>>
    /\ allActions = <<>>
    /\ spawned = <<>>
    /\ inflight = {}
    /\ notifications = <<>>
    /\ loadState = "none"
    /\ provided = [returned |-> FALSE, items |-> <<>>]
    /\ probe = [op |-> "none"]
    /\ commandRuns = NoCommand
    /\ initializer = NoInitializer

Idle == IdleExtension /\ fetcher = NoFetcher

OnlyProbe ==
    UNCHANGED <<commandRuns, initializer, fetcher, workspace, cacheFile, now, fastfile, pc, cachedData,
                cacheStatus, local, fastlaneActions, queue, enhanced,
                actionInfoCache, allActions, spawned, inflight, notifications,
                loadState, provided>>

InitCache ==
    /\ workspace \in BOOLEAN
    /\ cacheFile \in CacheFiles
    /\ workspace = FALSE => cacheFile = NoFile
    /\ fastfile = NoFastfile
    /\ Idle

\* Each operation reads the file inside try / catch and existsSync does not
\* throw: threw is false on every path.
CallGetCachedData ==
    /\ pc = "off" /\ probe.op = "none"
    /\ probe' = [op |-> "getCachedData", threw |-> FALSE,
                 out |-> getCachedData(workspace, cacheFile, now)]
    /\ OnlyProbe

CallIsCacheValid ==
    /\ pc = "off" /\ probe.op = "none"
    /\ probe' = [op |-> "isCacheValid", threw |-> FALSE,
                 out |-> isCacheValid(workspace, cacheFile, now)]
    /\ OnlyProbe

CallGetCacheStatus ==
    /\ pc = "off" /\ probe.op = "none"
    /\ probe' = [op |-> "getCacheStatus", threw |-> FALSE,
                 out |-> getCacheStatus(workspace, cacheFile, now)]
    /\ OnlyProbe

NextCache == CallGetCachedData \/ CallIsCacheValid \/ CallGetCacheStatus

SpecCache == InitCache /\ [][NextCache]_vars

-----------------------------------------------------------------------------
(* Requiredness Inference and the two row parsers applied to one row *)

ProbeActionNames == {"match", "gradle", "build_app", "my_plugin"}
ProbeKeys == {"type", "app_identifier", "tasks", "readonly", "git_url"}
DefaultCells == {"", "*", "internal", "development"}
EnvCells == {"", "MATCH_TYPE"}

ProbeHeader == "| Options | Description | Env Var | Default |"

\* one row of the parameters table as the tool prints it
RowText(key, description, envVar, defaultVal) ==
    "| " \o key \o " | " \o description \o " | " \o envVar \o " | "
         \o defaultVal \o " |"

InitRequired ==
    /\ workspace = TRUE
    /\ cacheFile = NoFile
    /\ fastfile = NoFastfile
    /\ Idle

CallIsParameterRequired ==
    /\ pc = "off" /\ probe.op = "none"
    /\ \E actionName \in ProbeActionNames, key \in ProbeKeys,
          defaultVal \in DefaultCells, envVar \in EnvCells :
          probe' = [op |-> "isParameterRequired", actionName |-> actionName,
                    key |-> key, defaultVal |-> defaultVal, envVar |-> envVar,
                    out |-> isParameterRequired(actionName, key, defaultVal, envVar)]
    /\ OnlyProbe

\* the provider reads the detail text of one action: getActionInfo
ProviderParsesRow ==
    /\ pc = "off" /\ probe.op = "none"
    /\ \E actionName \in ProbeActionNames, key \in ProbeKeys,
          defaultVal \in DefaultCells, envVar \in EnvCells :
          LET lines == <<ProbeHeader, RowText(key, "About it", envVar, defaultVal)>>
          IN probe' = [op |-> "parseActionInfo", actionName |-> actionName,
                       lines |-> lines,
                       out |-> parseActionInfo(actionName, lines)]
    /\ OnlyProbe

\* the initializer reads the same text (loadActionParameters) and the provider
\* later loads the record from the cache (loadActionsFromCache)
InitializerParsesRow ==
    /\ pc = "off" /\ probe.op = "none"
    /\ \E actionName \in ProbeActionNames, key \in ProbeKeys,
          defaultVal \in DefaultCells, envVar \in EnvCells :
          LET lines == <<ProbeHeader, RowText(key, "About it", envVar, defaultVal)>>
              parameters == parseActionParameters(lines)
          IN probe' = [op |-> "parseActionParameters", actionName |-> actionName,
                       lines |-> lines,
                       out |-> parameters,
                       item |-> cachedActionItem(
                                   [name |-> actionName, hasParameters |-> TRUE,
                                    parameters |-> parameters])]
    /\ OnlyProbe

NextRequired ==
    CallIsParameterRequired \/ ProviderParsesRow \/ InitializerParsesRow

SpecRequired == InitRequired /\ [][NextRequired]_vars

-----------------------------------------------------------------------------
(* The three template synthesizers applied to one action *)

PlainParam(i, required) ==
    Param("p" \o ToString(i), "", Undefined, Undefined, required, "string", <<>>)

\* n parameters p1..pn in discovery order, those of R required
PlainParams(n, R) == [i \in 1..n |-> PlainParam(i, i \in R)]

OptionSets == {<<>>, <<"a", "b", "c">>, <<"ios", "osx">>}
DefaultValues == {Undefined, "", "b", "TRUE", "1,2"}
ParamTypes == {"string", "boolean", "array"}

\* one parameter with options / default / type, after k plain optional ones
RichParams ==
    {PlainParams(k, {}) \o <<Param("track", "The track", Undefined, d, r, t, o)>> :
        k \in 0..(MaxParams - 1), d \in DefaultValues, r \in BOOLEAN,
        t \in ParamTypes, o \in OptionSets}

SynthParams ==
    {PlainParams(n, R) : n \in 0..MaxParams, R \in SUBSET (1..MaxParams)}
        \cup RichParams

SynthActionNames == {"match", "my_plugin"}

InitSynth ==
    /\ workspace = TRUE
    /\ cacheFile = NoFile
    /\ fastfile = NoFastfile
    /\ Idle

CallGenerateSnippetForAction ==
    /\ pc = "off" /\ probe.op = "none"
    /\ \E name \in SynthActionNames, parameters \in SynthParams :
          LET actionDef == [name |-> name, platforms |-> <<"ios">>,
                            parameters |-> parameters]
          IN probe' = [op |-> "generateSnippetForAction", name |-> name,
                       parameters |-> parameters,
                       after |-> IF Len(parameters) = 0 THEN parameters
                                 ELSE parametersAfterSelecting(parameters, DefinitionSnippetLimit),
                       pairs |-> IF Len(parameters) = 0 THEN <<>>
                                 ELSE pairsOfDefinition(actionDef),
                       text |-> generateSnippetForAction(actionDef)]
    /\ OnlyProbe

CallLoadActionsFromCache ==
    /\ pc = "off" /\ probe.op = "none"
    /\ \E name \in SynthActionNames, parameters \in SynthParams :
          probe' = [op |-> "loadActionsFromCache", name |-> name,
                    parameters |-> parameters,
                    after |-> IF Len(parameters) = 0 THEN parameters
                              ELSE parametersAfterSelecting(parameters, ProviderSnippetLimit),
                    pairs |-> IF Len(parameters) = 0 THEN <<>>
                              ELSE paramSnippets(name, parameters),
                    text |-> loadActionsFromCache(
                                <<[name |-> name, hasParameters |-> TRUE,
                                   parameters |-> parameters]>>)[1].insertText]
    /\ OnlyProbe

CallCreateParameterizedCompletion ==
    /\ pc = "off" /\ probe.op = "none"
    /\ \E name \in SynthActionNames, parameters \in SynthParams :
          probe' = [op |-> "createParameterizedCompletion", name |-> name,
                    parameters |-> parameters,
                    after |-> IF Len(parameters) = 0 THEN parameters
                              ELSE parametersAfterSelecting(parameters, ProviderSnippetLimit),
                    pairs |-> IF Len(parameters) = 0 THEN <<>>
                              ELSE paramSnippets(name, parameters),
                    text |-> parameterizedCompletion(name,
                                [found |-> TRUE,
                                 parameters |-> parameters]).insertText]
    /\ OnlyProbe

NextSynth ==
    \/ CallGenerateSnippetForAction
    \/ CallLoadActionsFromCache
    \/ CallCreateParameterizedCompletion

SpecSynth == InitSynth /\ [][NextSynth]_vars

-----------------------------------------------------------------------------
(* The cache initializer's list parsers: scripts/init-fastlane-data.js *)

\* an action or a lane as the initializer writes it into the envelope
CachedAction(name, parameters) ==
    [name |-> name, hasParameters |-> TRUE, parameters |-> parameters]

CachedLane(name, platform) == [name |-> name, platform |-> platform]

\* parseActionsFromCLIOutput of the initializer, lines 95-108: what one line adds
initializerActionOfLine(line) ==
    IF /\ Includes(line, "|")
       /\ ~Includes(line, "Action")
       /\ ~Includes(line, "---")
       /\ ~Includes(line, "+")
    THEN LET cells == SplitPipe(line, "")
             parts == [i \in 1..Len(cells) |-> Trim(cells[i])]
         IN IF Len(parts) >= 2 /\ parts[2] # ""
            THEN LET actionName == Trim(StripAnsi(parts[2]))
                 IN IF IsActionName(actionName)
                    THEN <<CachedAction(actionName, <<>>)>>
                    ELSE <<>>
            ELSE <<>>
    ELSE <<>>

RECURSIVE initializerParseActions(_)
\* parseActionsFromCLIOutput(output) of the initializer
initializerParseActions(lines) ==
    IF lines = <<>> THEN <<>>
    ELSE initializerActionOfLine(Head(lines))
         \o initializerParseActions(Tail(lines))

-----------------------------------------------------------------------------
(* The table parsers applied to raw text *)

MaxLines == 3

SeparatorLines ==
    {"+------+------+", "|------|------|", "| -- | == |"}

HeaderLines ==
    {"| Action | Description | Author |",
     "| Key | Description | Env Var | Default |",
     "| Output | Description |"}

ActionRow == "| match | Sync certificates | KrauseFx |"
MalformedRow == "| 2fa-check | Broken row | x |"
ParameterRow == "| type | Define the profile type | MATCH_TYPE | development |"
EmptyEnvRow == "| force | Renew the profiles |  | false |"
ShortRow == "| git_url | URL of the repo |"
OutputMarker == "| match Output Variables |"

\* the lines a text is made of
TableLines ==
    SeparatorLines \cup HeaderLines
        \cup {ProbeHeader, ActionRow, MalformedRow, ParameterRow, EmptyEnvRow,
              ShortRow, OutputMarker}

TableTexts == SeqsUpTo(TableLines, MaxLines)

Labels(items) == [i \in 1..Len(items) |-> items[i].label]
Names(records) == [i \in 1..Len(records) |-> records[i].name]
Keys(parameters) == [i \in 1..Len(parameters) |-> parameters[i].key]

InitParse ==
    /\ workspace = TRUE
    /\ cacheFile = NoFile
    /\ fastfile = NoFastfile
    /\ Idle

CallParseActionsFromCLIOutput ==
    /\ pc = "off" /\ probe.op = "none"
    /\ \E lines \in TableTexts :
          probe' = [op |-> "parseActionsFromCLIOutput", actionName |-> "",
                    lines |-> lines, threw |-> FALSE,
                    names |-> Labels(parseActionsFromCLIOutput(lines)),
                    out |-> <<>>]
    /\ OnlyProbe

CallInitializerParseActions ==
    /\ pc = "off" /\ probe.op = "none"
    /\ \E lines \in TableTexts :
          probe' = [op |-> "initializer.parseActionsFromCLIOutput",
                    actionName |-> "", lines |-> lines, threw |-> FALSE,
                    names |-> Names(initializerParseActions(lines)),
                    out |-> <<>>]
    /\ OnlyProbe

CallParseActionInfo ==
    /\ pc = "off" /\ probe.op = "none"
    /\ \E lines \in TableTexts :
          probe' = [op |-> "parseActionInfo", actionName |-> "match",
                    lines |-> lines, threw |-> FALSE,
                    names |-> Keys(parseActionInfo("match", lines)),
                    out |-> parseActionInfo("match", lines)]
    /\ OnlyProbe

CallParseActionParameters ==
    /\ pc = "off" /\ probe.op = "none"
    /\ \E lines \in TableTexts :
          probe' = [op |-> "parseActionParameters", actionName |-> "match",
                    lines |-> lines, threw |-> FALSE,
                    names |-> Keys(parseActionParameters(lines)),
                    out |-> parseActionParameters(lines)]
    /\ OnlyProbe

NextParse ==
    \/ CallParseActionsFromCLIOutput
    \/ CallInitializerParseActions
    \/ CallParseActionInfo
    \/ CallParseActionParameters

SpecParse == InitParse /\ [][NextParse]_vars

-----------------------------------------------------------------------------
(* The cache initializer as a process: FastlaneDataInitializer.init *)

initializerCommonActions ==
    {"build_app", "match", "upload_to_testflight", "gradle",
     "upload_to_play_store", "firebase_app_distribution",
     "increment_build_number", "get_version_number",
     "app_store_connect_api_key", "git_add", "git_commit"}

RECURSIVE initializerLanesOfPlatforms(_)
\* the loop of the initializer's parseLanesFromJSON over Object.entries
initializerLanesOfPlatforms(entries) ==
    IF entries = <<>> THEN <<>>
    ELSE (IF Head(entries).isObject
          THEN [i \in 1..Len(Head(entries).lanes) |->
                   CachedLane(Head(entries).lanes[i], Head(entries).platform)]
          ELSE <<>>)
         \o initializerLanesOfPlatforms(Tail(entries))

\* parseLanesFromJSON of the initializer: the catch leaves the list empty
initializerParseLanesFromJSON(json) ==
    IF json.ok THEN initializerLanesOfPlatforms(json.platforms) ELSE <<>>

\* loadLanesFromFile: [threw, lanes]; readFileSync throws on an unreadable
\* Fastfile
loadLanesFromFile(file) ==
    IF file.kind = "absent" THEN [threw |-> FALSE, lanes |-> <<>>]
    ELSE IF file.kind = "unreadable" THEN [threw |-> TRUE, lanes |-> <<>>]
    ELSE [threw |-> FALSE,
          lanes |-> [i \in 1..Len(parseLanes(file.lines)) |->
                        CachedLane(parseLanes(file.lines)[i].label, "unknown")]]

\* what loadAllFastlaneData returns and JSON.stringify writes
Envelope(actions, lanes, t) ==
    [kind |-> "json", hasActions |-> TRUE, hasLanes |-> TRUE, tsValid |-> TRUE,
     timestamp |-> t, actions |-> actions, lanes |-> lanes]

\* The file while writeFileSync is at work on it: opened with truncation and
\* not yet wholly written.  Its text is a proper prefix of the JSON text, on
\* which JSON.parse throws.
PartialFile == CorruptFile

RECURSIVE detailUntilAwait(_, _)
\* the loop of loadDetailedActions run up to its next subprocess: need is the
\* action whose parameters it waits for, "" when the loop ended
detailUntilAwait(todo, done) ==
    IF todo = <<>> THEN [todo |-> <<>>, done |-> done, need |-> ""]
    ELSE IF Head(todo).name \in initializerCommonActions
    THEN [todo |-> todo, done |-> done, need |-> Head(todo).name]
    ELSE detailUntilAwait(Tail(todo), Append(done, Head(todo)))

\* the variables of the completion provider
providerVars ==
    <<workspace, now, fastfile, pc, cachedData, cacheStatus, local,
      fastlaneActions, queue, enhanced, actionInfoCache, allActions, spawned,
      inflight, loadState, provided>>

\* what the tool answers to one subprocess call of the initializer: the call
\* fails (or times out), or its stdout is lines, or the JSON text json
ToolFails == [failed |-> TRUE, lines |-> <<>>,
              json |-> [ok |-> FALSE, platforms |-> <<>>]]

ToolPrints(lines) == [failed |-> FALSE, lines |-> lines,
                      json |-> [ok |-> FALSE, platforms |-> <<>>]]

ToolPrintsJSON(json) == [failed |-> FALSE, lines |-> <<>>, json |-> json]

\* The tool's outputs do not change between the runs of one behaviour: the
\* first run takes any answer, every later run gets to its k-th subprocess
\* call the answer the first run got.
ToolAnswers(answer) ==
    \/ initializer.runs = 1
    \/ /\ Len(initializer.spawned) <= Len(initializer.outputs)
       /\ initializer.outputs[Len(initializer.spawned)] = answer

\* the answers known after this one
outputsWith(answer) ==
    IF initializer.runs = 1 THEN Append(initializer.outputs, answer)
    ELSE initializer.outputs

\* process.exit(code), or the end of init() for code 0
exitWith(code) == [initializer EXCEPT !.pc = "exited", !.code = code]

initializerExec(commandLine) ==
    [initializer EXCEPT !.spawned = Append(@, commandLine)]

\* init(), lines 17-25: the process starts, ensures the cache directory and
\* asks for the tool's version
startInitializer ==
    [NoInitializer EXCEPT !.pc = "awaitVersion", !.before = cacheFile,
                          !.spawned = <<"fastlane --version">>,
                          !.runs = initializer.runs + 1,
                          !.outputs = initializer.outputs,
                          !.left = IF initializer.pc = "exited"
                                      /\ initializer.code = 0
                                   THEN initializer.written ELSE NoFile]

\* node scripts/init-fastlane-data.js run from a shell in the workspace
RunInitializer ==
    /\ pc = "off" /\ workspace
    /\ initializer.pc = "none"
    /\ initializer' = startInitializer
    /\ UNCHANGED <<providerVars, fetcher, cacheFile, notifications, probe, commandRuns>>

\* the script is run again once the process before has exited
RunInitializerAgain ==
    /\ pc = "off" /\ workspace
    /\ initializer.pc = "exited"
    /\ initializer.runs < MaxScriptRuns
    /\ initializer' = startInitializer
    /\ UNCHANGED <<providerVars, fetcher, cacheFile, notifications, probe, commandRuns>>

\* 'fastlane --version' answers: loadActions starts 'fastlane actions'
VersionFound ==
    /\ initializer.pc = "awaitVersion"
    /\ ToolAnswers(ToolPrints(<<>>))
    /\ initializer' = [initializerExec("fastlane actions") EXCEPT
                          !.pc = "awaitActions",
                          !.outputs = outputsWith(ToolPrints(<<>>))]
    /\ UNCHANGED <<providerVars, fetcher, cacheFile, notifications, probe, commandRuns>>

\* checkFastlaneAvailable throws: the catch of init() exits with code 1
VersionMissing ==
    /\ initializer.pc = "awaitVersion"
    /\ ToolAnswers(ToolFails)
    /\ initializer' = [exitWith(1) EXCEPT !.outputs = outputsWith(ToolFails)]
    /\ UNCHANGED <<providerVars, fetcher, cacheFile, notifications, probe, commandRuns>>

\* loadActions has its list (empty when the subprocess failed): loadLanes
\* starts 'fastlane lanes --json'
initializerStartLanes(actions, failed, answer) ==
    initializer' = [initializerExec("fastlane lanes --json") EXCEPT
                       !.pc = "awaitLanes", !.actions = actions,
                       !.actionsFailed = failed,
                       !.outputs = outputsWith(answer)]

InitializerActionsListed ==
    /\ initializer.pc = "awaitActions"
    /\ \E lines \in ActionsOutputs :
          /\ ToolAnswers(ToolPrints(lines))
          /\ initializerStartLanes(initializerParseActions(lines), FALSE,
                                   ToolPrints(lines))
    /\ UNCHANGED <<providerVars, fetcher, cacheFile, notifications, probe, commandRuns>>

\* the catch of loadActions returns []
InitializerActionsFailed ==
    /\ initializer.pc = "awaitActions"
    /\ ToolAnswers(ToolFails)
    /\ initializerStartLanes(<<>>, TRUE, ToolFails)
    /\ UNCHANGED <<providerVars, fetcher, cacheFile, notifications, probe, commandRuns>>

\* a saveCacheData that adds what it found to the lanes of the envelope in
\* the file, which the script never reads
beginWriteMerging(actions, lanes, answer) ==
    /\ initializer' = [initializer EXCEPT
                          !.pc = "writing", !.todo = <<>>, !.actions = actions,
                          !.lanes = lanes,
                          !.written =
                              Envelope(actions,
                                       IF cacheFile.kind = "json"
                                       THEN cacheFile.lanes \o lanes
                                       ELSE lanes,
                                       now),
                          !.outputs = outputsWith(answer)]
    /\ cacheFile' = PartialFile

\* saveCacheData reaches writeFileSync: the file is opened and truncated
beginWrite(actions, lanes, answer) ==
    /\ initializer' = [initializer EXCEPT
                          !.pc = "writing", !.todo = <<>>, !.actions = actions,
                          !.lanes = lanes,
                          !.written = Envelope(actions, lanes, now),
                          !.outputs = outputsWith(answer)]
    /\ cacheFile' = PartialFile

\* loadDetailedActions goes on from todo: to its next subprocess, or to the
\* end of the loop and saveCacheData
continueDetailing(todo, done, lanes, answer) ==
    LET r == detailUntilAwait(todo, done)
    IN IF r.need # ""
       THEN /\ initializer' =
                  [initializer EXCEPT
                      !.pc = "awaitParameters", !.todo = r.todo,
                      !.actions = r.done, !.lanes = lanes,
                      !.spawned = Append(@, "fastlane action " \o r.need),
                      !.outputs = outputsWith(answer)]
            /\ cacheFile' = cacheFile
       ELSE beginWrite(r.done, lanes, answer)

InitializerLanesListed ==
    /\ initializer.pc = "awaitLanes"
    /\ \E json \in LanesOutputs :
          /\ ToolAnswers(ToolPrintsJSON(json))
          /\ continueDetailing(initializer.actions, <<>>,
                               initializerParseLanesFromJSON(json),
                               ToolPrintsJSON(json))
    /\ UNCHANGED <<providerVars, fetcher, notifications, probe, commandRuns>>

\* the catch of loadLanes scans the Fastfile; an exception of readFileSync
\* reaches the catch of init()
InitializerLanesFailed ==
    /\ initializer.pc = "awaitLanes"
    /\ ToolAnswers(ToolFails)
    /\ IF loadLanesFromFile(fastfile).threw
       THEN /\ initializer' =
                  [exitWith(1) EXCEPT !.outputs = outputsWith(ToolFails)]
            /\ cacheFile' = cacheFile
       ELSE continueDetailing(initializer.actions, <<>>,
                              loadLanesFromFile(fastfile).lanes, ToolFails)
    /\ UNCHANGED <<providerVars, fetcher, notifications, probe, commandRuns>>

\* loadActionParameters: 'fastlane action <name>' answers
ParametersFetched ==
    /\ initializer.pc = "awaitParameters"
    /\ \E lines \in ActionInfoOutputs :
          /\ ToolAnswers(ToolPrints(lines))
          /\ continueDetailing(
                 Tail(initializer.todo),
                 Append(initializer.actions,
                        CachedAction(Head(initializer.todo).name,
                                     parseActionParameters(lines))),
                 initializer.lanes, ToolPrints(lines))
    /\ UNCHANGED <<providerVars, fetcher, notifications, probe, commandRuns>>

\* the catch of loadActionParameters returns the action as it was
ParametersFailed ==
    /\ initializer.pc = "awaitParameters"
    /\ ToolAnswers(ToolFails)
    /\ continueDetailing(Tail(initializer.todo),
                         Append(initializer.actions, Head(initializer.todo)),
                         initializer.lanes, ToolFails)
    /\ UNCHANGED <<providerVars, fetcher, notifications, probe, commandRuns>>

\* writeFileSync returns: the file holds the whole envelope and init() ends
WriteCompleted ==
    /\ initializer.pc = "writing"
    /\ cacheFile' = initializer.written
    /\ initializer' = exitWith(0)
    /\ UNCHANGED <<providerVars, fetcher, notifications, probe, commandRuns>>

\* writeFileSync throws part-way (disk full, I/O error): the catch of init()
\* exits with code 1 and the file stays as far as it was written
WriteFailed ==
    /\ initializer.pc = "writing"
    /\ initializer' = exitWith(1)
    /\ UNCHANGED <<providerVars, fetcher, cacheFile, notifications, probe, commandRuns>>

InitializerStep ==
    \/ VersionFound
    \/ VersionMissing
    \/ InitializerActionsListed
    \/ InitializerActionsFailed
    \/ InitializerLanesListed
    \/ InitializerLanesFailed
    \/ ParametersFetched
    \/ ParametersFailed
    \/ WriteCompleted
    \/ WriteFailed

\* another process reads the cache through the Knowledge Cache while the
\* initializer runs
ReadCache ==
    /\ pc = "off" /\ probe.op = "none"
    /\ \E op \in {"getCachedData", "isCacheValid", "getCacheStatus"} :
          probe' = [op |-> op, threw |-> FALSE,
                    out |-> CASE op = "getCachedData" ->
                                    getCachedData(workspace, cacheFile, now)
                              [] op = "isCacheValid" ->
                                    isCacheValid(workspace, cacheFile, now)
                              [] op = "getCacheStatus" ->
                                    getCacheStatus(workspace, cacheFile, now)]
    /\ UNCHANGED <<providerVars, fetcher, cacheFile, notifications, commandRuns, initializer>>

\* the envelopes a workspace may hold before a refresh
FilesBeforeRefresh ==
    {NoFile, CorruptFile,
     Envelope(<<CachedAction("match", CachedParams)>>,
              <<CachedLane("beta", "ios")>>, NowMs - 36 * MsPerHour),
     Envelope(<<CachedAction("adb", <<>>)>>, <<>>, NowMs - 1)}

InitRefresh ==
    /\ workspace = TRUE
    /\ cacheFile \in FilesBeforeRefresh
    /\ fastfile \in Fastfiles
    /\ Idle

NextRefresh == RunInitializer \/ InitializerStep \/ ReadCache

SpecRefresh == InitRefresh /\ [][NextRefresh]_vars

\* the script run and run again, nothing else touching the workspace
NextTwice == RunInitializer \/ RunInitializerAgain \/ InitializerStep

SpecTwice == InitRefresh /\ [][NextTwice]_vars

-----------------------------------------------------------------------------
(* The documentation fetcher: src/fastlane-docs-fetcher.ts *)

\* CACHE_DURATION, in milliseconds
CACHE_DURATION == 86400000   \* 24 * 60 * 60 * 1000

batchSize == 5

\* the names getCommonActions looks up, of which the model takes the first
MaxFetched == 7

AllCommonActionNames ==
    <<"build_app", "gym", "match", "upload_to_testflight",
      "get_version_number", "increment_build_number",
      "latest_testflight_build_number", "app_store_connect_api_key",
      "update_code_signing_settings", "update_project_team",
      "gradle", "android_get_version_name", "increment_version_code",
      "google_play_track_version_codes", "upload_to_play_store", "supply",
      "sh", "puts", "git_add", "git_commit", "push_to_git_remote",
      "create_pull_request", "ensure_git_status_clean", "notification",
      "slack", "scan", "run_tests", "swiftlint",
      "firebase_app_distribution">>

commonActionNames == SubSeq(AllCommonActionNames, 1, MaxFetched)

\* Array.prototype.slice(from, to) with 0-based bounds
ArraySlice(array, from, to) ==
    SubSeq(array, from + 1, IF to < Len(array) THEN to ELSE Len(array))

\* a window that takes every name that is left
batchOfTheRest(names, i) == ArraySlice(names, i, Len(names))

\* const batch = commonActionNames.slice(i, i + batchSize)
batchOf(names, i) == ArraySlice(names, i, i + batchSize)

\* the cache check of getActionInfo: an entry younger than CACHE_DURATION
cachedFresh(cache, name, t) ==
    \E entry \in cache :
        entry.name = name /\ t - entry.timestamp < CACHE_DURATION

\* this.actionCache.set(name, {data, timestamp})
actionCacheSet(cache, name, t) ==
    {entry \in cache : entry.name # name}
        \cup {[name |-> name, timestamp |-> t]}

\* the lookups of the fetcher f that have not settled, by their place in the
\* name list
PendingLookups(f) ==
    {k \in DOMAIN f.values : f.values[k] = PendingInfo}

IsActionInfo(value) == value \notin {PendingInfo, NullInfo}

\* the loop body after 'await Promise.allSettled(batchPromises)': nothing
\* happens while a lookup of the batch is pending; then the values of the
\* fulfilled lookups that are not null are pushed in the order of the batch,
\* and the call waits for its delay or returns
afterAllSettled(f) ==
    IF PendingLookups(f) # {} THEN f
    ELSE [f EXCEPT
             !.actions = @ \o SelectSeq(SubSeq(f.values, f.i + 1, Len(f.values)),
                                        IsActionInfo),
             !.pc = IF f.i + batchSize < Len(commonActionNames)
                    THEN "delay" ELSE "returned"]

\* batch.map((actionName) => this.getActionInfo(actionName)) for the batch
\* at index i: every lookup of the batch starts; one whose name has a fresh
\* cache entry resolves to it without a fetch, the others wait for theirs
startBatch(f, i) ==
    LET batch == batchOf(commonActionNames, i)
    IN afterAllSettled(
           [f EXCEPT
               !.pc = "awaitBatch", !.i = i,
               !.values = @ \o [k \in 1..Len(batch) |->
                                   IF cachedFresh(f.actionCache, batch[k], now)
                                   THEN batch[k] ELSE PendingInfo]])

\* getCommonActions is called
GetCommonActions ==
    /\ pc = "off" /\ fetcher.pc = "idle"
    /\ fetcher' = startBatch(fetcher, 0)
    /\ UNCHANGED <<providerVars, cacheFile, notifications, probe, commandRuns,
                   initializer>>

\* what fetchActionFromDocs may do to a lookup: resolve to an ActionInfo,
\* resolve to null (all that the body in the repository does), or throw
FetchOutcomes == {"info", "null", "threw"}

\* getActionInfo after 'await this.fetchActionFromDocs(url, actionName)' for
\* the k-th name: an ActionInfo is cached and returned, null and an
\* exception (caught and logged) give null; the lookup settles, and with the
\* last one of its batch the loop of getCommonActions goes on
fetchSettled(k, outcome) ==
    /\ fetcher.pc = "awaitBatch"
    /\ k \in PendingLookups(fetcher)
    /\ fetcher' = afterAllSettled(
          [fetcher EXCEPT
              !.values[k] = IF outcome = "info" THEN commonActionNames[k]
                            ELSE NullInfo,
              !.failed = IF outcome = "threw"
                         THEN @ \cup {commonActionNames[k]} ELSE @,
              !.actionCache = IF outcome = "info"
                              THEN actionCacheSet(@, commonActionNames[k], now)
                              ELSE @])
    /\ UNCHANGED <<providerVars, cacheFile, notifications, probe, commandRuns,
                   initializer>>

FetchSettled ==
    \E k \in DOMAIN commonActionNames : \E outcome \in FetchOutcomes :
        fetchSettled(k, outcome)

\* the 100 ms between two batches have passed: i += batchSize and the loop
\* starts the next batch
DelayElapsed ==
    /\ fetcher.pc = "delay"
    /\ fetcher' = startBatch(fetcher, fetcher.i + batchSize)
    /\ UNCHANGED <<providerVars, cacheFile, notifications, probe, commandRuns,
                   initializer>>

\* the Map of a fetcher on which getActionInfo has been called before: empty,
\* or with a fresh entry and one older than CACHE_DURATION
FetcherCaches ==
    {{},
     {[name |-> "gym", timestamp |-> NowMs - MsPerHour],
      [name |-> "match", timestamp |-> NowMs - 36 * MsPerHour]}}

InitFetcher ==
    /\ workspace = TRUE
    /\ cacheFile = NoFile
    /\ fastfile = NoFastfile
    /\ IdleExtension
    /\ \E cache \in FetcherCaches :
          fetcher = [NoFetcher EXCEPT !.actionCache = cache]

NextFetcher == GetCommonActions \/ FetchSettled \/ DelayElapsed

SpecFetcher == InitFetcher /\ [][NextFetcher]_vars

-----------------------------------------------------------------------------
(* Live discovery, by the provider of a session or by the initializer run
   from a shell *)

InitDiscovery == Init \/ InitRefresh

NextDiscovery == Next \/ RunInitializer \/ InitializerStep

SpecDiscovery == InitDiscovery /\ [][NextDiscovery]_vars

-----------------------------------------------------------------------------
(* The extension: the provider of a session and the two commands *)

\* command runs of one session
MaxRuns == 2

ErrorMessage(text) == [level |-> "error", text |-> text]

CommandNames == {"initData", "refreshData"}

StartedMessage(name) ==
    Info(IF name = "initData" THEN "Initializing Fastlane data..."
         ELSE "Refreshing Fastlane data...")

\* (the texts start with a check-mark emoji, left out of the model's strings)
SucceededMessage(name) ==
    Info(IF name = "initData"
         THEN "Fastlane data initialized successfully! Restart VSCode to apply changes."
         ELSE "Fastlane data refreshed successfully! Restart VSCode to apply changes.")

\* `Failed to initialize Fastlane data: ${error}`
FailedMessage(name, error) ==
    ErrorMessage((IF name = "initData" THEN "Failed to initialize Fastlane data: "
                  ELSE "Failed to refresh Fastlane data: ") \o error)

NoWorkspaceError == "Error: No workspace found"

ScriptFailedError ==
    "Error: Failed to initialize fastlane data: Error: Command failed"

\* a handler whose catch shows nothing
reportOutcomeSwallowingErrors(name, error) ==
    IF error = "" THEN <<SucceededMessage(name)>> ELSE <<>>

\* what a handler shows once initializeData / refreshData has settled: error
\* is "" when the promise resolved, the text of the exception otherwise
reportOutcome(name, error) ==
    IF error = "" THEN <<SucceededMessage(name)>>
    ELSE <<FailedMessage(name, error)>>

\* a command handler from its call to its await: initializeData throws at
\* once without a workspace, and starts the initializer script otherwise,
\* whatever other handlers are waiting for theirs.  script is where the
\* process of the run stands: "running", "writing" inside writeFileSync, "none"
runCommand(name) ==
    /\ pc \notin {"new", "off"}
    /\ Len(commandRuns) < MaxRuns
    /\ IF ~workspace
       THEN /\ notifications' = notifications \o <<StartedMessage(name)>>
                                   \o reportOutcome(name, NoWorkspaceError)
            /\ commandRuns' = Append(commandRuns,
                   [name |-> name, pc |-> "done", result |-> "error",
                    script |-> "none"])
       ELSE /\ notifications' = Append(notifications, StartedMessage(name))
            /\ commandRuns' = Append(commandRuns,
                   [name |-> name, pc |-> "awaitScript", result |-> "none",
                    script |-> "running"])
    /\ UNCHANGED <<providerVars, fetcher, cacheFile, initializer, probe>>

InitDataCommand == runCommand("initData")

RefreshDataCommand == runCommand("refreshData")

\* what a successful run of the initializer has found
InitializerFindings ==
    {[actions |-> <<CachedAction("match", CachedParams)>>,
      lanes |-> <<CachedLane("beta", "ios")>>]}

\* the runs whose script is inside writeFileSync on the cache file
Writers == {i \in DOMAIN commandRuns : commandRuns[i].script = "writing"}

\* the script of a run reaches saveCacheData: writeFileSync opens the cache
\* file with truncation, whether or not another process has it open
ScriptWrites ==
    \E i \in DOMAIN commandRuns :
        /\ commandRuns[i].pc = "awaitScript"
        /\ commandRuns[i].script = "running"
        /\ cacheFile' = PartialFile
        /\ commandRuns' = [commandRuns EXCEPT ![i].script = "writing"]
        /\ UNCHANGED <<providerVars, fetcher, notifications, initializer, probe>>

\* the script has written its envelope and exits with code 0: execAsync
\* resolves and the handler shows its success message.  The file holds the
\* envelope, unless another process is writing it too: then the bytes of the
\* two may be mixed
InitializeDataResolved ==
    \E i \in DOMAIN commandRuns :
        /\ commandRuns[i].pc = "awaitScript"
        /\ commandRuns[i].script = "writing"
        /\ \E found \in InitializerFindings :
              cacheFile' \in {Envelope(found.actions, found.lanes, now)}
                               \cup (IF Writers \ {i} # {} THEN {PartialFile}
                                      ELSE {})
        /\ notifications' = notifications \o reportOutcome(commandRuns[i].name, "")
        /\ commandRuns' = [commandRuns EXCEPT ![i].pc = "done",
                                              ![i].result = "success",
                                              ![i].script = "none"]
        /\ UNCHANGED <<providerVars, fetcher, initializer, probe>>

\* the script exits with another code, cannot be started, or is killed after
\* the 120 s timeout, possibly while it writes (the file then stays as far as
\* it was written): execAsync rejects, initializeData throws and the handler
\* shows the error
InitializeDataRejected ==
    \E i \in DOMAIN commandRuns :
        /\ commandRuns[i].pc = "awaitScript"
        /\ notifications' =
              notifications \o reportOutcome(commandRuns[i].name, ScriptFailedError)
        /\ commandRuns' = [commandRuns EXCEPT ![i].pc = "done",
                                              ![i].result = "error",
                                              ![i].script = "none"]
        /\ UNCHANGED <<providerVars, fetcher, cacheFile, initializer, probe>>

\* the cache files of the sessions followed with their commands: none, a
\* stale envelope, an envelope without its lanes
ExtensionCacheFiles ==
    {NoFile,
     Envelope(<<CachedAction("match", CachedParams)>>, <<>>,
              NowMs - 36 * MsPerHour),
     [Envelope(<<>>, <<>>, NowMs - 36 * MsPerHour) EXCEPT !.hasLanes = FALSE]}

InitExtension ==
    /\ Init
    /\ cacheFile \in ExtensionCacheFiles
    /\ fastfile = NoFastfile

\* the loading of the provider and the commands; completion requests show
\* nothing and are left to Spec
NextExtension ==
    \/ Construct
    \/ ActionsListed
    \/ ActionsFailed
    \/ ActionInfoFetched
    \/ ActionInfoFailed
    \/ LanesListed
    \/ LanesFailed
    \/ InitDataCommand
    \/ RefreshDataCommand
    \/ ScriptWrites
    \/ InitializeDataResolved
    \/ InitializeDataRejected

SpecExtension == InitExtension /\ [][NextExtension]_vars

-----------------------------------------------------------------------------------------------------------------------------------------------------
(* The load under fair scheduling *)

\* Each execAsync of the load carries a timeout (10 s), so a call that does
\* not return fails: the failure continuation of the call awaited stays
\* enabled until the call is over, and the event loop runs it unless the call
\* returns first.
SubprocessFails == ActionsFailed \/ ActionInfoFailed \/ LanesFailed

\* sessions with no cache, a stale envelope or an envelope without its lanes,
\* whose Fastfile is absent, unreadable or declares no lane
InitLive ==
    /\ Init
    /\ cacheFile \in ExtensionCacheFiles
    /\ fastfile.lines = <<>>

SpecLive ==
    InitLive /\ [][Next]_vars /\ WF_vars(Construct) /\ WF_vars(SubprocessFails)

-----------------------------------------------------------------------------
(* Claims *)

\* the age of the file's envelope, for a file whose timestamp is a date
AgeMs == now - cacheFile.timestamp

\* the file holds a CacheEnvelope: an actions and a lanes array, a dated timestamp
IsEnvelope(file) ==
    file.kind = "json" /\ file.hasActions /\ file.hasLanes /\ file.tsValid

LoadStarted == pc \notin {"new", "off"}
LoadEnded == pc \in {"done", "failed"}

\* C1: when loadAllActions starts with a valid cache present (readable, age
\* below 24 h), the load ends at once and no subprocess is ever spawned by it.
C1_NoSubprocessWithValidCache ==
    (LoadStarted /\ workspace /\ cacheFile.kind = "json" /\ cacheFile.tsValid
        /\ AgeMs < 24 * MsPerHour)
    => (LoadEnded /\ spawned = <<>> /\ inflight = {})

C1_Witness ==
    /\ pc = "done"
    /\ IsEnvelope(cacheFile) /\ AgeMs = 24 * MsPerHour - 1000
    /\ Len(allActions) > 0
    /\ spawned = <<>>

\* C2: with the cache absent, a failure of the actions-listing subprocess is
\* followed in the same step by the start of the lanes-listing subprocess.
C2_LanesListedAfterActionsFail ==
    [][ActionsFailed =>
          /\ spawned' = Append(spawned, "fastlane lanes --json")
          /\ "fastlane lanes --json" \in inflight'
          /\ pc' = "awaitLanes"]_vars

C2_Witness ==
    /\ cachedData = NullData
    /\ pc = "awaitLanes"
    /\ fastlaneActions = <<>>
    /\ spawned = <<"fastlane actions", "fastlane lanes --json">>
    /\ inflight = {"fastlane lanes --json"}

\* C3: isCacheValid and getCacheStatus().valid are true exactly when
\* now - timestamp < 24 hours: false at 24h0m0s, true at 23h59m59s.
C3_ValidityBoundary ==
    (probe.op \in {"isCacheValid", "getCacheStatus"} /\ workspace
        /\ cacheFile.kind = "json" /\ cacheFile.tsValid)
    => LET valid == IF probe.op = "isCacheValid" THEN probe.out
                    ELSE probe.out.valid
       IN /\ valid = (AgeMs < 24 * MsPerHour)
          /\ AgeMs = 24 * MsPerHour => ~valid
          /\ AgeMs = 24 * MsPerHour - 1000 => valid

C3_Witness ==
    /\ probe.op = "isCacheValid"
    /\ cacheFile.kind = "json" /\ cacheFile.tsValid
    /\ AgeMs = 24 * MsPerHour
    /\ probe.out = FALSE

\* the completion set made of the envelope's actions, then its lanes
ItemsOfEnvelope(file) ==
    loadActionsFromCache(file.actions) \o loadLanesFromCache(file.lanes)

Advised == \E i \in DOMAIN notifications : notifications[i] = CacheOldMessage

\* C4 as claimed: every cached envelope aged from 12 h (included) up to 24 h
\* raises the 'cache is getting old' advisory when a session loads it, and the
\* session uses the envelope's data.
C4_AdvisoryFromTwelveHours ==
    (LoadStarted /\ workspace /\ IsEnvelope(cacheFile)
        /\ AgeMs >= 12 * MsPerHour /\ AgeMs < 24 * MsPerHour)
    => (Advised /\ pc = "done" /\ allActions = ItemsOfEnvelope(cacheFile))

\* C4 amended: an envelope aged more than 12 h and less than 24 h raises the
\* advisory; one aged exactly 12 h does not; in both cases the session uses
\* the envelope's data.
C4_AdvisoryAboveTwelveHours ==
    (LoadStarted /\ workspace /\ IsEnvelope(cacheFile)
        /\ AgeMs >= 12 * MsPerHour /\ AgeMs < 24 * MsPerHour)
    => /\ Advised <=> AgeMs > 12 * MsPerHour
       /\ pc = "done"
       /\ allActions = ItemsOfEnvelope(cacheFile)

C4_Witness ==
    /\ pc = "done"
    /\ IsEnvelope(cacheFile) /\ AgeMs = 12 * MsPerHour + 1
    /\ Advised
    /\ Len(allActions) > 0 /\ allActions = ItemsOfEnvelope(cacheFile)

\* C5 as claimed: for a key outside the override list isParameterRequired is
\* true iff (the default is absent or "*") and the env var is absent.
C5_RequiredIffNoDefaultAndNoEnvVar ==
    (probe.op = "isParameterRequired"
        /\ ~inOverrideTable(probe.actionName, probe.key))
    => (probe.out <=> ((probe.defaultVal = "" \/ probe.defaultVal = "*")
                        /\ probe.envVar = ""))

\* C5 amended: for a key outside the override list isParameterRequired is
\* true iff the default is "*", or the default and the env var are both
\* absent; a "*" default with an env var is required.
C5_RequiredIffStarOrNothing ==
    (probe.op = "isParameterRequired"
        /\ ~inOverrideTable(probe.actionName, probe.key))
    => /\ probe.out <=> (probe.defaultVal = "*"
                          \/ (probe.defaultVal = "" /\ probe.envVar = ""))
       /\ (probe.defaultVal = "*" /\ probe.envVar # "") => probe.out

C5_Witness ==
    /\ probe.op = "isParameterRequired"
    /\ probe.actionName = "my_plugin" /\ probe.key = "readonly"
    /\ probe.defaultVal = "*" /\ probe.envVar = "MATCH_TYPE"
    /\ probe.out = TRUE

\* C6: every parameter record produced for action "match" with key "type" is
\* required, whatever its default and env var, from the provider's parser
\* and from the initializer's parser whose records the provider loads.
C6_OverrideWinsInBothParsers ==
    (probe.op \in {"parseActionInfo", "parseActionParameters"}
        /\ probe.actionName = "match")
    => \A i \in DOMAIN probe.out :
           probe.out[i].key = "type" => probe.out[i].required

\* the keys of the pairs a synthesizer rendered
PairKeys(pairs) == [i \in 1..Len(pairs) |-> pairs[i].key]

KeysOf(params) == [i \in 1..Len(params) |-> params[i].key]

SynthOps ==
    {"generateSnippetForAction", "loadActionsFromCache",
     "createParameterizedCompletion"}

\* C7: for an action with 8 parameters of which 2 are required, each of the
\* three synthesizers renders exactly 5 pairs: the 2 required ones, then the
\* first 3 optional ones, each group in discovery order.
C7_FivePairsRequiredFirst ==
    (probe.op \in SynthOps /\ Len(probe.parameters) = 8
        /\ Cardinality({i \in 1..8 : probe.parameters[i].required}) = 2)
    => LET Req(q) == q.required
           Opt(q) == ~q.required
           required == SelectSeq(probe.parameters, Req)
           optional == SelectSeq(probe.parameters, Opt)
       IN /\ Len(probe.pairs) = 5
          /\ PairKeys(probe.pairs) = KeysOf(required \o SubSeq(optional, 1, 3))

\* C8: a parameter generateSnippetForAction selected that has options is
\* rendered as the choice placeholder of exactly those options in their
\* order, with or without a declared default; a default is rendered only for
\* a parameter without options.
C8_OptionsBeforeDefault ==
    probe.op = "generateSnippetForAction"
    => \A i \in DOMAIN probe.pairs :
          \A j \in DOMAIN probe.parameters :
             probe.parameters[j].key = probe.pairs[i].key
             => LET q == probe.parameters[j]
                    shown == probe.pairs[i].placeholder
                IN /\ Len(q.options) > 0
                        => shown = "${" \o ToString(i) \o "|"
                                   \o JoinWith(q.options, ",") \o "|}"
                   /\ (Len(q.options) = 0 /\ q.defaultValue # Undefined)
                        => shown = formatDefaultValueByType(q.defaultValue,
                                                            q.type)

C8_Witness ==
    /\ probe.op = "generateSnippetForAction"
    /\ Len(probe.parameters) = 3
    /\ probe.parameters[3].options = <<"a", "b", "c">>
    /\ probe.parameters[3].defaultValue = "b"
    /\ probe.parameters[3].required
    /\ probe.pairs[1] = [key |-> "track", placeholder |-> "${1|a,b,c|}"]

\* what each operation returns when the file is missing
ResultWhenAbsent(op) ==
    CASE op = "getCachedData" -> probe.out = NullData
      [] op = "isCacheValid" -> probe.out = FALSE
      [] op = "getCacheStatus" ->
            probe.out = [exists |-> FALSE, valid |-> FALSE, age |-> NoAge]

CorruptProbed ==
    probe.op \in {"getCachedData", "isCacheValid", "getCacheStatus"}
        /\ workspace /\ cacheFile.kind = "corrupt"

\* C9 as claimed: for a corrupt file getCachedData, isCacheValid and
\* getCacheStatus return what they return for a missing file, and none throws.
C9_CorruptSameAsAbsent ==
    CorruptProbed => (~probe.threw /\ ResultWhenAbsent(probe.op))

\* C9 amended: for a corrupt file none of the three throws, getCachedData
\* returns null and isCacheValid false as for a missing file, and
\* getCacheStatus returns valid = false without an age but exists = true.
C9_CorruptIsNullInvalidButExists ==
    CorruptProbed
    => /\ ~probe.threw
       /\ CASE probe.op = "getCachedData" -> probe.out = NullData
            [] probe.op = "isCacheValid" -> probe.out = FALSE
            [] probe.op = "getCacheStatus" ->
                  probe.out = [exists |-> TRUE, valid |-> FALSE, age |-> NoAge]

C9_Witness ==
    /\ probe.op = "getCacheStatus"
    /\ cacheFile.kind = "corrupt"
    /\ probe.out.exists /\ ~probe.out.valid /\ probe.out.age.kind = "none"

\* C10: whatever the cache file, the tool outcomes and the Fastfile,
\* loadAllActions ends without a rejected promise, and provideCompletionItems
\* afterwards returns a list.
C10_LoadNeverRejects ==
    /\ loadState # "rejected"
    /\ LoadEnded => pc = "done"
    /\ provided.returned => provided.items \in Seq(Range(allActions))

ActionParsers ==
    {"parseActionsFromCLIOutput", "initializer.parseActionsFromCLIOutput"}

ParameterParsers == {"parseActionInfo", "parseActionParameters"}

\* only '-', '+', '=', whitespace and pipes
PureSeparator(line) ==
    /\ line # ""
    /\ \A i \in 1..Len(line) : SubSeq(line, i, i) \in {"-", "+", "=", "|", " "}

KnownHeaderLabels ==
    {"Action", "Key", "Description", "Env Var", "Default", "Output", "Author"}

\* a row whose cells are all header labels
LabelHeader(line) ==
    /\ rowParts(line) # <<>>
    /\ \A i \in DOMAIN rowParts(line) : rowParts(line)[i] \in KnownHeaderLabels

MatchesIdentifier(s, underscoreFirst) ==
    LET letters == Range(UpperChars) \cup Range(LowerChars)
    IN /\ Len(s) >= 1
       /\ SubSeq(s, 1, 1) \in letters
            \cup (IF underscoreFirst THEN {"_"} ELSE {})
       /\ \A i \in 2..Len(s) :
             SubSeq(s, i, i) \in letters \cup DigitChars \cup {"_"}

\* C13: every action name the list parsers return matches
\* ^[a-zA-Z][a-zA-Z0-9_]*$ and every parameter key the detail parsers return
\* matches ^[a-zA-Z_][a-zA-Z0-9_]*$; a row whose first cell fails the pattern
\* raises no error and the row after it is still parsed.
C13_NamesMatchPatternAndParsingGoesOn ==
    probe.op \in ActionParsers \cup ParameterParsers
    => /\ ~probe.threw
       /\ \A i \in DOMAIN probe.names :
             MatchesIdentifier(probe.names[i], probe.op \in ParameterParsers)
       /\ (probe.op \in ActionParsers
             /\ \E i \in 2..Len(probe.lines) :
                   probe.lines[i - 1] = MalformedRow /\ probe.lines[i] = ActionRow)
          => \E j \in DOMAIN probe.names : probe.names[j] = "match"
       /\ (probe.op \in ParameterParsers
             /\ probe.lines = <<ProbeHeader, MalformedRow, ParameterRow>>)
          => probe.names = <<"type">>

C13_Witness ==
    /\ probe.op = "parseActionInfo"
    /\ probe.lines = <<ProbeHeader, MalformedRow, ParameterRow>>
    /\ probe.names = <<"type">>

\* C14: the cells after the key map by column to description, env var and
\* default: a row with an empty Env Var cell and a default yields envVar
\* absent and defaultValue the Default cell; missing trailing cells yield
\* absent fields.
C14_CellsMapByColumn ==
    (probe.op \in ParameterParsers /\ Len(probe.lines) = 2
        /\ probe.lines[1] = ProbeHeader)
    => /\ probe.lines[2] = EmptyEnvRow
          => /\ Len(probe.out) = 1
             /\ probe.out[1].key = "force"
             /\ probe.out[1].envVar = Undefined
             /\ probe.out[1].defaultValue = "false"
       /\ probe.lines[2] = ShortRow
          => /\ Len(probe.out) = 1
             /\ probe.out[1].envVar = Undefined
             /\ probe.out[1].defaultValue = Undefined

IsSectionHeader(line) == Includes(line, "Options")

IsSectionEnd(line) ==
    Includes(line, "Output Variables") \/ Includes(line, "Return Value")

\* line i comes before the parameters-section header, or after the marker
\* that closed the section
OutsideParameters(lines, i) ==
    \/ ~\E h \in 1..(i - 1) : IsSectionHeader(lines[h])
    \/ \E m \in 1..(i - 1) :
          /\ IsSectionEnd(lines[m])
          /\ \E h \in 1..(m - 1) : IsSectionHeader(lines[h])

\* C15: every parameter record comes from a row inside the parameters
\* section: none from a row before the section header or after an
\* output / return-value marker, in the provider's and in the initializer's
\* parser.
C15_RecordsOnlyFromParametersSection ==
    probe.op \in ParameterParsers
    => \A j \in DOMAIN probe.names :
          \E i \in DOMAIN probe.lines :
             /\ ~OutsideParameters(probe.lines, i)
             /\ rowParts(probe.lines[i]) # <<>>
             /\ rowParts(probe.lines[i])[1] = probe.names[j]

Readers == {"getCachedData", "isCacheValid", "getCacheStatus"}

\* what a reader returns when the file is wholly the given one
ReadResult(op, file) ==
    CASE op = "getCachedData" -> getCachedData(workspace, file, now)
      [] op = "isCacheValid" -> isCacheValid(workspace, file, now)
      [] op = "getCacheStatus" -> getCacheStatus(workspace, file, now)

\* C11: a reader running concurrently with saveCacheData observes the complete
\* old envelope or the complete new one: once the initializer has started to
\* write, what any reader returned is what it returns for the file as it was
\* before the refresh or for the new envelope.
C11_ReaderSeesOldOrNewEnvelope ==
    (probe.op \in Readers /\ initializer.pc \in {"writing", "exited"}
        /\ initializer.written # NoFile)
    => \/ probe.out = ReadResult(probe.op, initializer.before)
       \/ probe.out = ReadResult(probe.op, initializer.written)

\* C17: when the actions-listing subprocess of an initialize / refresh run
\* fails, the run writes no envelope: the cache file stays as it was before
\* the run.
C17_NoEnvelopeWhenActionsListingFails ==
    (initializer.actionsFailed /\ initializer.pc = "exited")
    => cacheFile = initializer.before

\* the published set holds an item of the static definitions
StaticPublished ==
    \E i \in DOMAIN allActions : allActions[i] \in Range(loadStandardFastlaneActions)

\* the cache tier is empty: a well-formed envelope that lists no action
EmptyCacheTier ==
    /\ workspace /\ IsEnvelope(cacheFile)
    /\ cacheFile.actions = <<>>

\* C16: the chain goes to the next tier exactly when the previous one is empty
\* or failing: a cached envelope with zero actions leads to live discovery,
\* and a published set holds static definitions exactly when live discovery
\* ran and yielded zero actions.
C16_ChainAdvancesOnEmptyOrFailingTier ==
    /\ (LoadStarted /\ EmptyCacheTier) => "fastlane actions" \in Range(spawned)
    /\ pc = "done" =>
          (StaticPublished <=> (cachedData = NullData /\ fastlaneActions = <<>>))

\* C20: whenever a session builds its completion set from a cached envelope
\* aged 24 hours or more, the stale-cache advisory is raised in that same
\* load, no later than the set is published: no state has the set of such an
\* envelope published without the advisory.
C20_StaleEnvelopeRaisesAdvisory ==
    (LoadStarted /\ workspace /\ IsEnvelope(cacheFile)
        /\ AgeMs >= ValidHours * MsPerHour)
    => /\ pc = "done" /\ allActions = ItemsOfEnvelope(cacheFile)
       /\ Advised
       /\ spawned = <<>>

C20_Witness ==
    /\ pc = "done"
    /\ IsEnvelope(cacheFile) /\ AgeMs = ValidHours * MsPerHour
    /\ ~isCacheValid(workspace, cacheFile, now)
    /\ Len(allActions) > 0 /\ allActions = ItemsOfEnvelope(cacheFile)
    /\ notifications = <<CacheOldMessage>>

DescribePrefix == "fastlane action "

\* the action names the describe-one-action subprocess was started for
Described(started) ==
    {SubSeq(started[i], Len(DescribePrefix) + 1, Len(started[i])) :
        i \in {k \in DOMAIN started : StartsWith(started[k], DescribePrefix)}}

\* C19: during live discovery the describe-one-action subprocess is started
\* only for names that are in the fixed allow-list of the discovering
\* component and that are in the list of actions it discovered.
C19_DescribeOnlyAllowedDiscoveredActions ==
    /\ Described(spawned) \subseteq
          commonActions \cap Range(Labels(queue \o enhanced))
    /\ Described(initializer.spawned) \subseteq
          initializerCommonActions
             \cap Range(Names(initializer.actions \o initializer.todo))

C19_Witness ==
    /\ pc = "done"
    /\ Described(spawned) = {"match"}
    /\ "my_plugin" \in Range(Labels(enhanced))
    /\ Len(allActions) >= 2

\* how many of the notifications shown so far are among the messages
Shown(messages) ==
    Cardinality({i \in DOMAIN notifications : notifications[i] \in messages})

ErrorsShown ==
    Cardinality({i \in DOMAIN notifications : notifications[i].level = "error"})

OutcomeMessages(name, result) ==
    IF result = "success" THEN {SucceededMessage(name)}
    ELSE {FailedMessage(name, NoWorkspaceError),
          FailedMessage(name, ScriptFailedError)}

RunsEnded(name, result) ==
    Cardinality({i \in DOMAIN commandRuns :
                    /\ commandRuns[i].name = name
                    /\ commandRuns[i].pc = "done"
                    /\ commandRuns[i].result = result})

\* C18: passive loading of the provider never shows an error notification:
\* the error notifications are those of the initialize / refresh command runs
\* that failed.  Every run of a command that has ended has shown exactly one
\* of its success notification and its error notification, and a run that
\* has not ended has shown neither.
C18_ErrorsOnlyFromCommandsOneOutcomeEach ==
    /\ \A i \in DOMAIN commandRuns :
          /\ commandRuns[i].pc = "done" <=> commandRuns[i].result \in {"success", "error"}
          /\ commandRuns[i].pc # "done" => commandRuns[i].result = "none"
    /\ \A name \in CommandNames : \A result \in {"success", "error"} :
          Shown(OutcomeMessages(name, result)) = RunsEnded(name, result)
    /\ ErrorsShown
          = RunsEnded("initData", "error") + RunsEnded("refreshData", "error")
    /\ commandRuns = <<>> => ErrorsShown = 0

\* the provider's load has been rejected and shows no error; a refresh run
\* has failed and an initialize run has succeeded
C18_Witness ==
    /\ pc = "failed"
    /\ workspace
    /\ Len(commandRuns) = 2
    /\ RunsEnded("refreshData", "error") = 1
    /\ RunsEnded("initData", "success") = 1
    /\ ErrorsShown = 1

\* C30: for every state of the cache file, what isCacheValid returns is the
\* valid field of what getCacheStatus returns, and a status with valid = true
\* has exists = true and comes with a getCachedData that is not null.
C30_ValidAgreesWithStatusAndData ==
    /\ probe.op = "isCacheValid"
          => probe.out = getCacheStatus(workspace, cacheFile, now).valid
    /\ probe.op = "getCacheStatus"
          => /\ probe.out.valid = isCacheValid(workspace, cacheFile, now)
             /\ probe.out.valid =>
                   /\ probe.out.exists
                   /\ getCachedData(workspace, cacheFile, now) # NullData
    /\ probe.op = "getCachedData"
          => (probe.out = NullData
                 => ~getCacheStatus(workspace, cacheFile, now).valid)

\* an envelope without a dated timestamp: the status exists, is not valid,
\* and its age is NaN
C30_Witness ==
    /\ probe.op = "getCacheStatus"
    /\ cacheFile.kind = "json" /\ ~cacheFile.tsValid
    /\ probe.out.exists /\ ~probe.out.valid /\ probe.out.age.nan
    /\ ~isCacheValid(workspace, cacheFile, now)

\* the cache file parses to an envelope: an object with its actions and its
\* lanes arrays, dated or not
HoldsEnvelope ==
    workspace /\ cacheFile.kind = "json" /\ cacheFile.hasActions /\ cacheFile.hasLanes

\* C28: whenever getCachedData returns an envelope, whatever its age and even
\* when it lists no action and no lane, the load ends at once with the
\* published set being the items of the envelope's actions followed by those
\* of its lanes; no subprocess is started, and nothing of the static
\* definitions or of the Fastfile is added.
C28_EnvelopeAloneIsPublished ==
    (LoadStarted /\ HoldsEnvelope)
    => /\ pc = "done" /\ loadState = "resolved"
       /\ cachedData = cacheFile
       /\ allActions = loadActionsFromCache(cacheFile.actions)
                          \o loadLanesFromCache(cacheFile.lanes)
       /\ spawned = <<>> /\ inflight = {}
       /\ fastlaneActions = <<>>

\* an empty envelope that is no longer valid is published as an empty set
C28_Witness ==
    /\ pc = "done"
    /\ HoldsEnvelope /\ cacheFile.tsValid /\ AgeMs = 36 * MsPerHour
    /\ cacheFile.actions = <<>> /\ cacheFile.lanes = <<>>
    /\ ~isCacheValid(workspace, cacheFile, now)
    /\ allActions = <<>> /\ spawned = <<>>

\* C29: the completion set is published in one step.  Whatever the moment of
\* a completion request during the load, it returns the empty list or the
\* complete final set: the published set is empty until the load is done, and
\* is then the whole set the load has assembled.
C29_PublishedInOneStep ==
    /\ provided.returned => provided.items \in {<<>>, allActions}
    /\ pc # "done" => allActions = <<>>
    /\ pc = "done" => allActions = local
    /\ (provided.returned /\ provided.items # <<>>) => pc = "done"

\* a request answered with the empty list while the lanes were being listed,
\* the load having already found actions
C29_Witness ==
    /\ pc = "awaitLanes"
    /\ Len(local) > 0
    /\ provided.returned /\ provided.items = <<>>

\* 'fastlane lanes --json' has exited with code 0 and a text that is not JSON
UnparsableLanes == [ok |-> FALSE, platforms |-> <<>>]

\* C23: when 'fastlane lanes --json' exits successfully with an output that
\* is not valid JSON, the lanes are obtained from the scan of the Fastfile,
\* exactly as when the subprocess fails: the step publishes the actions found,
\* the lanes the Fastfile declares, and the static definitions if no action
\* was found.
C23_UnparsableLanesFallBackToFastfile ==
    [][(lanesListed(UnparsableLanes) /\ ~loadExistingLanes(workspace, fastfile).threw)
          => allActions' = local \o loadExistingLanes(workspace, fastfile).items
                              \o (IF Len(fastlaneActions) = 0
                                  THEN loadStandardFastlaneActions ELSE <<>>)]_vars

\* the load waits for a subprocess
Awaiting == pc \in {"awaitActions", "awaitActionInfo", "awaitLanes"}

\* C24: the subprocess calls of one load are strictly sequential.  At most
\* one subprocess is in flight, it is the last one started, and the load is
\* then waiting for it; 'fastlane actions' is only the first call and
\* 'fastlane lanes --json' only the last, so a tier starts after the calls of
\* the tier before it have completed or failed.
C24_SubprocessesStrictlySequential ==
    /\ Cardinality(inflight) <= 1
    /\ inflight # {} <=> Awaiting
    /\ inflight # {} => inflight = {spawned[Len(spawned)]}
    /\ \A i \in DOMAIN spawned :
          /\ spawned[i] = "fastlane actions" <=> i = 1
          /\ spawned[i] = "fastlane lanes --json" => i = Len(spawned)
    /\ pc = "awaitActions" => spawned = <<"fastlane actions">>
    /\ pc = "awaitLanes" => spawned[Len(spawned)] = "fastlane lanes --json"

\* the lanes are being listed after the listing and two describe calls
C24_Witness ==
    /\ pc = "awaitLanes"
    /\ Len(spawned) >= 4
    /\ inflight = {"fastlane lanes --json"}

\* C25: given that every subprocess call returns or fails within its
\* timeout, a load that finds no cache file and so goes through the
\* subprocess calls always eventually reaches Done and publishes a completion
\* set, whatever calls fail or time out.
C25_LoadEventuallyDone ==
    cacheFile = NoFile => <>(pc = "done" /\ loadState = "resolved")

\* C26: template synthesis leaves its input unchanged: after each of the
\* three synthesizers the parameter sequence of the action record has the
\* order, the length and every field of every parameter it had before.
C26_SynthesisLeavesRecordUnchanged ==
    probe.op \in SynthOps => probe.after = probe.parameters

\* a record whose first parameter is optional and second required: the
\* snippet lists the required one first, the record keeps its order
C26_Witness ==
    /\ probe.op \in SynthOps
    /\ Len(probe.parameters) >= 2
    /\ ~probe.parameters[1].required /\ probe.parameters[2].required
    /\ probe.pairs # <<>>
    /\ RequiredFirst(probe.parameters) # probe.parameters
    /\ probe.after = probe.parameters

\* a second run of the initializer has ended with a whole envelope after the
\* first one had done so
RefreshedTwice ==
    /\ initializer.runs = 2
    /\ initializer.pc = "exited" /\ initializer.code = 0
    /\ initializer.left # NoFile

\* C21: a refresh is idempotent on content: when the initializer runs twice
\* in sequence and the tool's outputs and the Fastfile do not change, the
\* envelope of the second run has the actions and the lanes of the envelope
\* of the first (the timestamp may differ), whatever file the first run found.
C21_RefreshIdempotentOnContent ==
    RefreshedTwice =>
        /\ cacheFile.kind = "json"
        /\ cacheFile.actions = initializer.left.actions
        /\ cacheFile.lanes = initializer.left.lanes
        /\ initializer.before = initializer.left

\* two runs over an old envelope, each describing an action and taking the
\* lanes from the tool
C21_Witness ==
    /\ RefreshedTwice
    /\ Len(initializer.spawned) >= 4
    /\ cacheFile.actions # <<>> /\ cacheFile.lanes # <<>>
    /\ initializer.outputs[3].failed = FALSE
    /\ Len(initializer.outputs) = Len(initializer.spawned)

\* C22: the cache file has at most one writer at a time: whatever the
\* interleaving of the initialize and refresh commands, a second one issued
\* while the first is running included, the scripts of two runs are never
\* inside their write of the cache file together.
C22_AtMostOneWriter ==
    Cardinality(Writers) <= 1

\* C27: getCommonActions runs its lookups in batches of at most five
\* concurrent getActionInfo calls, starts a batch only when every lookup of
\* the batches before it has settled, and a lookup that fails or resolves to
\* null stops neither the other lookups of its batch nor the later batches:
\* once a batch is joined the result holds the non-null values of its
\* lookups in the order of the names, and the returned array holds exactly
\* the non-null values of the lookups of all the names.
C27_BatchesOfFiveJoinedInOrder ==
    /\ Cardinality(PendingLookups(fetcher)) <= batchSize
    /\ \A k \in PendingLookups(fetcher) : k > fetcher.i
    /\ Len(fetcher.values) <= fetcher.i + batchSize
    /\ fetcher.pc = "awaitBatch" =>
          fetcher.actions = SelectSeq(SubSeq(fetcher.values, 1, fetcher.i),
                                      IsActionInfo)
    /\ fetcher.pc \in {"delay", "returned"} =>
          /\ PendingLookups(fetcher) = {}
          /\ fetcher.actions = SelectSeq(fetcher.values, IsActionInfo)
    /\ fetcher.pc = "returned" =>
          /\ Len(fetcher.values) = Len(commonActionNames)
          /\ \A k \in DOMAIN fetcher.values :
                fetcher.values[k] \in {NullInfo, commonActionNames[k]}

\* the call has returned after two batches, with a lookup that threw and one
\* that resolved to null in the first batch, a cache hit, and results of both
\* batches
C27_Witness ==
    /\ fetcher.pc = "returned"
    /\ fetcher.failed \cap Range(SubSeq(commonActionNames, 1, batchSize)) # {}
    /\ \E k \in 1..batchSize :
          /\ fetcher.values[k] = NullInfo
          /\ commonActionNames[k] \notin fetcher.failed
    /\ "gym" \in Range(fetcher.actions)
    /\ \E k \in 1..batchSize : fetcher.values[k] = commonActionNames[k]
                                  /\ commonActionNames[k] # "gym"
    /\ fetcher.actions[Len(fetcher.actions)]
          = commonActionNames[Len(commonActionNames)]

====
